---- MODULE Spec2Model ----
(***************************************************************************)
(* Lending lifecycle of the library application: the inventory ledger      *)
(* (models/book.py), the fee calculator and the borrow state machine       *)
(* (models/borrow.py), the reservation queue (models/reservation.py), the  *)
(* staff operations (models/staff.py), the fine balance (models/user.py,   *)
(* models/fine.py) and the scheduled tasks (scheduled_tasks.py).           *)
(*                                                                         *)
(* The SQLite database is the variable db, one field per table.  Times are *)
(* whole days in the lifecycle specifications (the '%Y-%m-%d %H:%M:%S'     *)
(* strings the code stores compare like the instants they denote) and      *)
(* whole minutes in the fee-calculator specification.                      *)
(***************************************************************************)
EXTENDS Integers, Sequences, FiniteSets, TLC

VARIABLES db, now, calc, pc, loc, lock, work

vars == <<db, now, calc, pc, loc, lock, work>>

----------------------------------------------------------------------------
(* Bounds of the model *)

MaxCopies == 2
MaxBorrows == 2
MaxReservations == 2
MaxQueue == 3
MaxTime == 15
MaxMinutes == 3000
MaxSeedRows == 20
MaxValueSteps == 24
MaxLimitRows == 6
MaxPickupTime == 4
MaxSweepTime == 17

Users == {"u1", "u2", "u3"}
Borrowers == {"u1", "u2"}
Books == {"b1"}
Procs == {"p1", "p2"}
TickDays == {15}
Conditions == {"good", "lost"}
BookValues == {50000}
DueTimes == {0, 30}
FeeSteps == {1, 7, 60, 1440}

NULL == -1

----------------------------------------------------------------------------
(* Program constants: config/config.py *)

MAX_BORROW_LIMIT == 5
BORROW_DURATION_DAYS == 14
RENEWAL_EXTENSION_DAYS == 7
PENDING_PICKUP_HOURS == 48
RESERVATION_HOLD_HOURS == 48
GRACE_PERIOD_MINUTES == 60
LATE_FEE_HOURLY == 2000
LATE_FEE_DAILY == 10000

HoursPerDay == 12 + 12
MinutesPerDay == HoursPerDay * 60
PendingDays == PENDING_PICKUP_HOURS \div HoursPerDay
HoldDays == RESERVATION_HOLD_HOURS \div HoursPerDay

----------------------------------------------------------------------------
(* Fee calculator *)

\* Borrow.calculate_late_fee with the round-up test inverted: a unit is added
\* when the delay is a whole number of units instead of when it is not.
calculate_late_fee_roundup_inverted(due, ret) ==
    IF ret <= due THEN 0
    ELSE LET total_minutes == ret - due IN
         IF total_minutes <= GRACE_PERIOD_MINUTES THEN 0
         ELSE LET effective_minutes == total_minutes - GRACE_PERIOD_MINUTES IN
              IF effective_minutes < HoursPerDay * 60
              THEN ((effective_minutes \div 60)
                    + (IF effective_minutes % 60 = 0 THEN 1 ELSE 0)) * LATE_FEE_HOURLY
              ELSE ((effective_minutes \div MinutesPerDay)
                    + (IF effective_minutes % MinutesPerDay = 0 THEN 1 ELSE 0)) * LATE_FEE_DAILY

\* Borrow.calculate_late_fee with the tier test written <= instead of <.
calculate_late_fee_tier_le(due, ret) ==
    IF ret <= due THEN 0
    ELSE LET total_minutes == ret - due IN
         IF total_minutes <= GRACE_PERIOD_MINUTES THEN 0
         ELSE LET effective_minutes == total_minutes - GRACE_PERIOD_MINUTES IN
              IF effective_minutes <= HoursPerDay * 60
              THEN ((effective_minutes \div 60)
                    + (IF effective_minutes % 60 > 0 THEN 1 ELSE 0)) * LATE_FEE_HOURLY
              ELSE ((effective_minutes \div MinutesPerDay)
                    + (IF effective_minutes % MinutesPerDay > 0 THEN 1 ELSE 0)) * LATE_FEE_DAILY

\* Borrow.calculate_late_fee, on times in whole minutes.  effective_hours is
\* effective_minutes / 60 and effective_days is effective_hours / 24:
\* effective_hours < 24 is effective_minutes < 1440, int(x) is the integer
\* quotient and x % 1 > 0 is a non-zero remainder.
calculate_late_fee(due, ret) ==
    IF ret <= due THEN 0
    ELSE LET total_minutes == ret - due IN
         IF total_minutes <= GRACE_PERIOD_MINUTES THEN 0
         ELSE LET effective_minutes == total_minutes - GRACE_PERIOD_MINUTES IN
              IF effective_minutes < HoursPerDay * 60
              THEN ((effective_minutes \div 60)
                    + (IF effective_minutes % 60 > 0 THEN 1 ELSE 0)) * LATE_FEE_HOURLY
              ELSE ((effective_minutes \div MinutesPerDay)
                    + (IF effective_minutes % MinutesPerDay > 0 THEN 1 ELSE 0)) * LATE_FEE_DAILY

\* Borrow.calculate_damage_fee (book values are multiples of 5, so 20% is exact)
\* Borrow.calculate_damage_fee with the surcharges of major_damage and lost
\* exchanged.
calculate_damage_fee_surcharges_swapped(condition, book_value) ==
    CASE condition = "good" -> 0
      [] condition = "minor_damage" -> (book_value * 20) \div 100
      [] condition = "major_damage" -> book_value + 20000
      [] condition = "lost" -> book_value + 15000
      [] OTHER -> 0

calculate_damage_fee(condition, book_value) ==
    CASE condition = "good" -> 0
      [] condition = "minor_damage" -> (book_value * 20) \div 100
      [] condition = "major_damage" -> book_value + 15000
      [] condition = "lost" -> book_value + 20000
      [] OTHER -> 0

----------------------------------------------------------------------------
(* Inventory ledger: models/book.py *)

\* Book.update_available_copies without the upper clamp.
update_available_copies_no_upper_clamp(book, change) ==
    LET a == book.avail + change IN
    [book EXCEPT !.avail = IF a < 0 THEN 0 ELSE a]

\* Book.update_available_copies: the change is applied to the count the Book
\* object was loaded with, clamped to [0, total_copies], and written back.
update_available_copies(book, change) ==
    LET a == book.avail + change
        a0 == IF a < 0 THEN 0 ELSE a
        a1 == IF a0 > book.total THEN book.total ELSE a0
    IN [book EXCEPT !.avail = a1]

\* Book.increment_borrow_count
increment_borrow_count(book) ==
    [book EXCEPT !.borrow_count = book.borrow_count + 1]

----------------------------------------------------------------------------
(* Reservation queue: models/reservation.py *)

\* rows of the reservations table of book b in status 'waiting'
WaitingOf(d, b) ==
    {r \in DOMAIN d.reservations :
        d.reservations[r].book = b /\ d.reservations[r].status = "waiting"}

\* Reservation.has_active_reservations counting the 'ready' rows instead of
\* the 'waiting' ones.
has_active_reservations_ready(d, b) ==
    Cardinality({r \in DOMAIN d.reservations :
        d.reservations[r].book = b /\ d.reservations[r].status = "ready"}) > 0

\* Reservation.has_active_reservations
has_active_reservations(d, b) == Cardinality(WaitingOf(d, b)) > 0

\* the place of row r in "ORDER BY queue_position ASC" (equal positions in
\* insertion order, the order of the table scan)
QueueRank(d, b, r) ==
    Cardinality({q \in WaitingOf(d, b) :
        \/ d.reservations[q].pos < d.reservations[r].pos
        \/ d.reservations[q].pos = d.reservations[r].pos /\ q <= r})

\* Reservation.get_next_in_queue with ORDER BY queue_position DESC.
get_next_in_queue_last(d, b) ==
    IF WaitingOf(d, b) = {} THEN 0
    ELSE CHOOSE r \in WaitingOf(d, b) : QueueRank(d, b, r) = Cardinality(WaitingOf(d, b))

\* Reservation.get_next_in_queue: the first waiting row by queue_position,
\* 0 when there is none
get_next_in_queue(d, b) ==
    IF WaitingOf(d, b) = {} THEN 0
    ELSE CHOOSE r \in WaitingOf(d, b) : QueueRank(d, b, r) = 1

\* Reservation.mark_ready on the loaded object res of row r at time t: the
\* status test reads the loaded object, the UPDATE writes the row
mark_ready(d, r, res, t) ==
    IF res.status # "waiting" THEN d
    ELSE [d EXCEPT !.reservations[r].status = "ready",
                   !.reservations[r].hold_until = t + HoldDays]

\* the promotion block of Borrow.return_book (borrow.py 427-431) and of
\* Borrow.cancel (borrow.py 534-537)
PromoteNext(d, b, t) ==
    IF has_active_reservations(d, b)
    THEN LET r == get_next_in_queue(d, b) IN
         IF r # 0 THEN mark_ready(d, r, d.reservations[r], t) ELSE d
    ELSE d

\* Reservation.create numbering the new reservation by the count of the
\* waiting reservations instead of their highest position (lines 75-80).
ReservationCreate_position_count(d, u, b, t) ==
    LET book == d.books[b]
        existing == {r \in WaitingOf(d, b) : d.reservations[r].user = u}
        next_position == Cardinality(WaitingOf(d, b)) + 1
    IN IF book.avail > 0
       THEN [db |-> d, ok |-> FALSE, msg |-> "available"]
       ELSE IF existing # {}
       THEN [db |-> d, ok |-> FALSE, msg |-> "already_reserved"]
       ELSE [db |-> [d EXCEPT !.reservations = Append(@,
                        [user |-> u, book |-> b, status |-> "waiting",
                         pos |-> next_position, hold_until |-> NULL])],
             ok |-> TRUE, msg |-> "reserved"]

\* Reservation.create without the test for a waiting reservation of the same
\* user and book (lines 65-72).
ReservationCreate_existing_ignored(d, u, b, t) ==
    LET book == d.books[b]
        positions == {d.reservations[r].pos : r \in WaitingOf(d, b)}
        max_pos == IF positions = {} THEN 0
                   ELSE CHOOSE m \in positions : \A q \in positions : q <= m
    IN IF book.avail > 0
       THEN [db |-> d, ok |-> FALSE, msg |-> "available"]
       ELSE [db |-> [d EXCEPT !.reservations = Append(@,
                        [user |-> u, book |-> b, status |-> "waiting",
                         pos |-> max_pos + 1, hold_until |-> NULL])],
             ok |-> TRUE, msg |-> "reserved"]

\* Reservation.create
ReservationCreate(d, u, b, t) ==
    LET book == d.books[b]
        existing == {r \in WaitingOf(d, b) : d.reservations[r].user = u}
        positions == {d.reservations[r].pos : r \in WaitingOf(d, b)}
        max_pos == IF positions = {} THEN 0
                   ELSE CHOOSE m \in positions : \A q \in positions : q <= m
        next_position == max_pos + 1
    IN IF book.avail > 0
       THEN [db |-> d, ok |-> FALSE, msg |-> "available"]
       ELSE IF existing # {}
       THEN [db |-> d, ok |-> FALSE, msg |-> "already_reserved"]
       ELSE [db |-> [d EXCEPT !.reservations = Append(@,
                        [user |-> u, book |-> b, status |-> "waiting",
                         pos |-> next_position, hold_until |-> NULL])],
             ok |-> TRUE, msg |-> "reserved"]

\* the queue compaction of Reservation.cancel (reservation.py 306-310)
CompactQueue(d, b, p) ==
    [d EXCEPT !.reservations = [q \in DOMAIN @ |->
        IF @[q].book = b /\ @[q].status = "waiting" /\ @[q].pos > p
        THEN [@[q] EXCEPT !.pos = @ - 1] ELSE @[q]]]

\* Reservation.cancel handing the place of the cancelled reservation to the
\* next waiting one, a promotion the method does not make.
ReservationCancel_promotes(d, r) ==
    LET res == d.reservations[r] IN
    IF res.status \notin {"waiting", "ready"}
    THEN [db |-> d, ok |-> FALSE, msg |-> "not_cancellable"]
    ELSE LET d1 == [d EXCEPT !.reservations[r].status = "cancelled"]
             nxt == get_next_in_queue(d1, res.book)
         IN [db |-> IF nxt # 0
                    THEN [d1 EXCEPT !.reservations[nxt].status = "ready",
                                    !.reservations[nxt].hold_until = res.hold_until]
                    ELSE d1,
             ok |-> TRUE, msg |-> "cancelled"]

\* Reservation.cancel on the loaded object of row r.  self.status is assigned
\* 'cancelled' (line 298) before it is compared with 'waiting' (line 305).
ReservationCancel(d, r) ==
    LET res == d.reservations[r] IN
    IF res.status \notin {"waiting", "ready"}
    THEN [db |-> d, ok |-> FALSE, msg |-> "not_cancellable"]
    ELSE LET self_status == "cancelled"
             d1 == [d EXCEPT !.reservations[r].status = "cancelled"]
             d2 == IF self_status = "waiting"
                   THEN CompactQueue(d1, res.book, res.pos) ELSE d1
         IN [db |-> d2, ok |-> TRUE, msg |-> "cancelled"]

\* Reservation.mark_ready called on the loaded object of row r at time t
MarkReady(d, r, t) ==
    IF d.reservations[r].status # "waiting"
    THEN [db |-> d, ok |-> FALSE, msg |-> "not_waiting"]
    ELSE [db |-> mark_ready(d, r, d.reservations[r], t), ok |-> TRUE, msg |-> "ready"]

\* Reservation.mark_expired without the status test of line 322.
MarkExpired_unguarded(d, r) ==
    [db |-> [d EXCEPT !.reservations[r].status = "expired"],
     ok |-> TRUE, msg |-> "expired"]

\* Reservation.mark_expired on the loaded object of row r
MarkExpired(d, r) ==
    IF d.reservations[r].status # "ready"
    THEN [db |-> d, ok |-> FALSE, msg |-> "not_ready"]
    ELSE [db |-> [d EXCEPT !.reservations[r].status = "expired"],
          ok |-> TRUE, msg |-> "expired"]

\* Reservation.complete on the loaded object of row r
Complete(d, r) ==
    IF d.reservations[r].status # "ready"
    THEN [db |-> d, ok |-> FALSE, msg |-> "not_ready"]
    ELSE [db |-> [d EXCEPT !.reservations[r].status = "completed"],
          ok |-> TRUE, msg |-> "completed"]

----------------------------------------------------------------------------
(* Borrow state machine: models/borrow.py *)

\* Borrow.get_active_borrows selecting only the 'pending_pickup' rows.
get_active_borrows_pending_only(d, u) ==
    {i \in DOMAIN d.borrows :
        d.borrows[i].user = u /\ d.borrows[i].status = "pending_pickup"}

\* Borrow.get_active_borrows
get_active_borrows(d, u) ==
    {i \in DOMAIN d.borrows :
        d.borrows[i].user = u /\ d.borrows[i].status \in {"borrowed", "pending_pickup"}}

\* Borrow.create without the unpaid-fines test of lines 267-271.
BorrowCreate_fines_ignored(d, u, b, t) ==
    LET book == d.books[b]
        active_borrows == get_active_borrows(d, u)
        row == [user |-> u, book |-> b, status |-> "pending_pickup",
                due |-> t + BORROW_DURATION_DAYS, pending_until |-> t + PendingDays, borrow_date |-> t,
                renewed |-> 0, late_fee |-> 0, damage_fee |-> 0]
    IN IF book.avail <= 0
       THEN [db |-> d, ok |-> FALSE, msg |-> "unavailable"]
       ELSE IF Cardinality(active_borrows) >= MAX_BORROW_LIMIT
       THEN [db |-> d, ok |-> FALSE, msg |-> "limit"]
       ELSE IF \E i \in active_borrows : d.borrows[i].book = b
       THEN [db |-> d, ok |-> FALSE, msg |-> "duplicate"]
       ELSE [db |-> [d EXCEPT !.borrows = Append(@, row),
                              !.books[b] = increment_borrow_count(
                                               update_available_copies(book, -1))],
             ok |-> TRUE, msg |-> "created"]

\* Borrow.create with the duplicate test of lines 262-265 ahead of the limit
\* test of lines 258-260.
BorrowCreate_duplicate_before_limit(d, u, b, t) ==
    LET book == d.books[b]
        active_borrows == get_active_borrows(d, u)
        user == d.users[u]
        row == [user |-> u, book |-> b, status |-> "pending_pickup",
                due |-> t + BORROW_DURATION_DAYS, pending_until |-> t + PendingDays, borrow_date |-> t,
                renewed |-> 0, late_fee |-> 0, damage_fee |-> 0]
    IN IF b \notin DOMAIN d.books
       THEN [db |-> d, ok |-> FALSE, msg |-> "not_found"]
       ELSE IF book.avail <= 0
       THEN [db |-> d, ok |-> FALSE, msg |-> "unavailable"]
       ELSE IF \E i \in active_borrows : d.borrows[i].book = b
       THEN [db |-> d, ok |-> FALSE, msg |-> "duplicate"]
       ELSE IF Cardinality(active_borrows) >= MAX_BORROW_LIMIT
       THEN [db |-> d, ok |-> FALSE, msg |-> "limit"]
       ELSE IF user.fines > 0
       THEN [db |-> d, ok |-> FALSE, msg |-> "fine"]
       ELSE [db |-> [d EXCEPT !.borrows = Append(@, row),
                              !.books[b] = increment_borrow_count(
                                               update_available_copies(book, -1))],
             ok |-> TRUE, msg |-> "created"]

\* Borrow.create with the limit test of line 258 written with > for >=.
BorrowCreate_limit_exceeded_only(d, u, b, t) ==
    LET book == d.books[b]
        active_borrows == get_active_borrows(d, u)
        user == d.users[u]
        row == [user |-> u, book |-> b, status |-> "pending_pickup",
                due |-> t + BORROW_DURATION_DAYS, pending_until |-> t + PendingDays, borrow_date |-> t,
                renewed |-> 0, late_fee |-> 0, damage_fee |-> 0]
    IN IF b \notin DOMAIN d.books
       THEN [db |-> d, ok |-> FALSE, msg |-> "not_found"]
       ELSE IF book.avail <= 0
       THEN [db |-> d, ok |-> FALSE, msg |-> "unavailable"]
       ELSE IF Cardinality(active_borrows) > MAX_BORROW_LIMIT
       THEN [db |-> d, ok |-> FALSE, msg |-> "limit"]
       ELSE IF \E i \in active_borrows : d.borrows[i].book = b
       THEN [db |-> d, ok |-> FALSE, msg |-> "duplicate"]
       ELSE IF user.fines > 0
       THEN [db |-> d, ok |-> FALSE, msg |-> "fine"]
       ELSE [db |-> [d EXCEPT !.borrows = Append(@, row),
                              !.books[b] = increment_borrow_count(
                                               update_available_copies(book, -1))],
             ok |-> TRUE, msg |-> "created"]

\* Borrow.create at time t
BorrowCreate(d, u, b, t) ==
    LET book == d.books[b]
        active_borrows == get_active_borrows(d, u)
        user == d.users[u]
        row == [user |-> u, book |-> b, status |-> "pending_pickup",
                due |-> t + BORROW_DURATION_DAYS, pending_until |-> t + PendingDays, borrow_date |-> t,
                renewed |-> 0, late_fee |-> 0, damage_fee |-> 0]
    IN IF b \notin DOMAIN d.books
       THEN [db |-> d, ok |-> FALSE, msg |-> "not_found"]
       ELSE IF book.avail <= 0
       THEN [db |-> d, ok |-> FALSE, msg |-> "unavailable"]
       ELSE IF Cardinality(active_borrows) >= MAX_BORROW_LIMIT
       THEN [db |-> d, ok |-> FALSE, msg |-> "limit"]
       ELSE IF \E i \in active_borrows : d.borrows[i].book = b
       THEN [db |-> d, ok |-> FALSE, msg |-> "duplicate"]
       ELSE IF user.fines > 0
       THEN [db |-> d, ok |-> FALSE, msg |-> "fine"]
       ELSE [db |-> [d EXCEPT !.borrows = Append(@, row),
                              !.books[b] = increment_borrow_count(
                                               update_available_copies(book, -1))],
             ok |-> TRUE, msg |-> "created"]

\* the status test of Borrow.cancel accepting every status but 'cancelled'.
can_be_cancelled_not_cancelled(status) == status # "cancelled"

\* the status test of Borrow.cancel (borrow.py 498)
can_be_cancelled(status) == status \in {"pending_pickup"}

\* the queue renumbering of Borrow.cancel (borrow.py 521-532)
ReorderQueue(d, b) ==
    [d EXCEPT !.reservations = [q \in DOMAIN @ |->
        IF q \in WaitingOf(d, b)
        THEN [@[q] EXCEPT !.pos = QueueRank(d, b, q)] ELSE @[q]]]

\* Borrow.cancel on the loaded object of row i at time t
BorrowCancel(d, i, t) ==
    LET self == d.borrows[i] IN
    IF ~can_be_cancelled(self.status)
    THEN [db |-> d, ok |-> FALSE, msg |-> "not_pending"]
    ELSE LET d1 == [d EXCEPT !.borrows[i].status = "cancelled"]
             d2 == [d1 EXCEPT !.books[self.book] = update_available_copies(@, 1)]
             d3 == IF has_active_reservations(d2, self.book)
                   THEN LET d4 == ReorderQueue(d2, self.book)
                            first == get_next_in_queue(d4, self.book)
                        IN IF first # 0
                           THEN mark_ready(d4, first, d4.reservations[first], t)
                           ELSE d4
                   ELSE d2
         IN [db |-> d3, ok |-> TRUE, msg |-> "cancelled"]

\* Borrow.approve_pickup without the deadline test of lines 334-341.
ApprovePickup_deadline_ignored(d, i, t) ==
    LET self == d.borrows[i] IN
    IF self.status # "pending_pickup"
    THEN [db |-> d, ok |-> FALSE, msg |-> "not_pending"]
    ELSE [db |-> [d EXCEPT !.borrows[i].status = "borrowed",
                           !.borrows[i].due = t + BORROW_DURATION_DAYS],
          ok |-> TRUE, msg |-> "borrowed"]

\* Borrow.approve_pickup keeping the due date estimated by Borrow.create
\* instead of recomputing it at lines 346-351.
ApprovePickup_due_kept(d, i, t) ==
    LET self == d.borrows[i] IN
    IF self.status # "pending_pickup"
    THEN [db |-> d, ok |-> FALSE, msg |-> "not_pending"]
    ELSE IF self.pending_until # NULL /\ t > self.pending_until
    THEN [db |-> BorrowCancel(d, i, t).db, ok |-> FALSE, msg |-> "deadline"]
    ELSE [db |-> [d EXCEPT !.borrows[i].status = "borrowed"],
          ok |-> TRUE, msg |-> "borrowed"]

\* Borrow.approve_pickup on the loaded object of row i at time t
ApprovePickup(d, i, t) ==
    LET self == d.borrows[i] IN
    IF self.status # "pending_pickup"
    THEN [db |-> d, ok |-> FALSE, msg |-> "not_pending"]
    ELSE IF self.pending_until # NULL /\ t > self.pending_until
    THEN [db |-> BorrowCancel(d, i, t).db, ok |-> FALSE, msg |-> "deadline"]
    ELSE [db |-> [d EXCEPT !.borrows[i].status = "borrowed",
                           !.borrows[i].due = t + BORROW_DURATION_DAYS],
          ok |-> TRUE, msg |-> "borrowed"]

\* Borrow.renew with the limit test of line 454 allowing a second renewal.
BorrowRenew_second_allowed(d, i, extension_days, t) ==
    LET self == d.borrows[i] IN
    IF self.status # "borrowed"
    THEN [db |-> d, ok |-> FALSE, msg |-> "not_borrowed"]
    ELSE IF self.renewed >= 2
    THEN [db |-> d, ok |-> FALSE, msg |-> "renewal_limit"]
    ELSE IF t > self.due
    THEN [db |-> d, ok |-> FALSE, msg |-> "overdue"]
    ELSE IF has_active_reservations(d, self.book)
    THEN [db |-> d, ok |-> FALSE, msg |-> "reserved"]
    ELSE [db |-> [d EXCEPT !.borrows[i].due = self.due + extension_days,
                           !.borrows[i].renewed = self.renewed + 1],
          ok |-> TRUE, msg |-> "renewed"]

\* Borrow.renew without the reservation test of lines 462-464.
BorrowRenew_reservations_ignored(d, i, extension_days, t) ==
    LET self == d.borrows[i] IN
    IF self.status # "borrowed"
    THEN [db |-> d, ok |-> FALSE, msg |-> "not_borrowed"]
    ELSE IF self.renewed >= 1
    THEN [db |-> d, ok |-> FALSE, msg |-> "renewal_limit"]
    ELSE IF t > self.due
    THEN [db |-> d, ok |-> FALSE, msg |-> "overdue"]
    ELSE [db |-> [d EXCEPT !.borrows[i].due = self.due + extension_days,
                           !.borrows[i].renewed = self.renewed + 1],
          ok |-> TRUE, msg |-> "renewed"]

\* Borrow.renew on the loaded object of row i at time t
BorrowRenew(d, i, extension_days, t) ==
    LET self == d.borrows[i] IN
    IF self.status # "borrowed"
    THEN [db |-> d, ok |-> FALSE, msg |-> "not_borrowed"]
    ELSE IF self.renewed >= 1
    THEN [db |-> d, ok |-> FALSE, msg |-> "renewal_limit"]
    ELSE IF t > self.due
    THEN [db |-> d, ok |-> FALSE, msg |-> "overdue"]
    ELSE IF has_active_reservations(d, self.book)
    THEN [db |-> d, ok |-> FALSE, msg |-> "reserved"]
    ELSE [db |-> [d EXCEPT !.borrows[i].due = self.due + extension_days,
                           !.borrows[i].renewed = self.renewed + 1],
          ok |-> TRUE, msg |-> "renewed"]

\* the fine bookkeeping of Borrow.return_book (borrow.py 413-423): User.add_fine,
\* User.add_violation, then Fine.create, which inserts the violations_history
\* row and adds the amount to users.fines once more (fine.py 51-54)
ApplyFine(d, u, i, total_fine) ==
    LET d1 == [d EXCEPT !.users[u].fines = @ + total_fine]
        d2 == [d1 EXCEPT !.users[u].violations = @ + 1]
    IN [d2 EXCEPT !.fines = Append(@, [user |-> u, amount |-> total_fine,
                                       borrow |-> i, status |-> "unpaid"]),
                  !.users[u].fines = @ + total_fine]

\* Borrow.return_book on the loaded object of row i at time t
ReturnBook(d, i, condition, book_value, t) ==
    LET self == d.borrows[i] IN
    IF self.status # "borrowed"
    THEN [db |-> d, ok |-> FALSE, msg |-> "not_borrowed"]
    ELSE LET late_fee == calculate_late_fee(self.due * MinutesPerDay, t * MinutesPerDay)
             damage_fee == calculate_damage_fee(condition, book_value)
             total_fine == late_fee + damage_fee
             d1 == [d EXCEPT !.borrows[i].status = "returned",
                             !.borrows[i].late_fee = late_fee,
                             !.borrows[i].damage_fee = damage_fee]
             d2 == [d1 EXCEPT !.books[self.book] = update_available_copies(@, 1)]
             d3 == IF total_fine > 0 THEN ApplyFine(d2, self.user, i, total_fine) ELSE d2
         IN [db |-> PromoteNext(d3, self.book, t), ok |-> TRUE, msg |-> "returned"]

\* the loop of Borrow.auto_cancel_expired_pickups over the selected rows, in
\* the order of the table: each row is loaded again and cancelled
RECURSIVE CancelEach(_, _, _, _)
CancelEach(d, ids, t, count) ==
    IF ids = {} THEN [db |-> d, count |-> count]
    ELSE LET i == CHOOSE x \in ids : \A y \in ids : x <= y
             r == BorrowCancel(d, i, t)
         IN CancelEach(r.db, ids \ {i}, t, IF r.ok THEN count + 1 ELSE count)

\* Borrow.auto_cancel_expired_pickups reading one row (fetchone) of the
\* SELECT instead of all of them.
AutoCancelExpiredPickups_first_only(d, t) ==
    LET expired_rows == {i \in DOMAIN d.borrows :
            d.borrows[i].status = "pending_pickup" /\ d.borrows[i].pending_until < t}
    IN IF expired_rows = {} THEN [db |-> d, count |-> 0]
       ELSE CancelEach(d, {CHOOSE x \in expired_rows : \A y \in expired_rows : x <= y},
                       t, 0)

\* Borrow.auto_cancel_expired_pickups comparing pending_until with the
\* borrow_date of the row instead of with now (line 568).
AutoCancelExpiredPickups_own_date(d, t) ==
    LET expired_rows == {i \in DOMAIN d.borrows :
            /\ d.borrows[i].status = "pending_pickup"
            /\ d.borrows[i].pending_until < d.borrows[i].borrow_date}
    IN CancelEach(d, expired_rows, t, 0)

\* Borrow.auto_cancel_expired_pickups at time t
AutoCancelExpiredPickups(d, t) ==
    LET expired_rows == {i \in DOMAIN d.borrows :
            d.borrows[i].status = "pending_pickup" /\ d.borrows[i].pending_until < t}
    IN CancelEach(d, expired_rows, t, 0)

----------------------------------------------------------------------------
(* The audit log: the SystemLog.add call each method makes when it succeeds
   (the users and books of the model always exist, so the 'if user and book'
   tests around the calls pass).  <<>> is a method with no SystemLog.add. *)

\* models/borrow.py 301-307, 366-372, 435-440, 483-489, 543-549
BorrowLog(method) ==
    CASE method = "create" -> <<"Book Hold Created">>
      [] method = "approve_pickup" -> <<"Book Pickup Confirmed">>
      [] method = "return_book" -> <<"Book Returned">>
      [] method = "renew" -> <<"Book Renewal">>
      [] method = "cancel" -> <<"Borrow Request Cancelled">>

\* models/reservation.py 98-104; mark_ready (243-284) only creates a
\* notification; cancel (286-314), mark_expired (316-334) and complete
\* (336-350) write no entry
ReservationLog(method) ==
    CASE method = "create" -> <<"Book Reservation">>
      [] method = "mark_ready" -> <<>>
      [] method = "cancel" -> <<>>
      [] method = "mark_expired" -> <<>>
      [] method = "complete" -> <<>>

----------------------------------------------------------------------------
(* Scheduled tasks: scheduled_tasks.py.  Each task is one try block around
   its queries and writes, with an except clause that writes an error entry
   with SystemLog.add.  fault is the condition of the store during the run:
   "none", "transient" (the first query of the task raises, the store works
   again when the except clause runs) or "persistent" (every call on the
   store raises, SystemLog.add included).  A task reports the database it
   leaves, the borrows it emitted a notification for, the borrows it
   cancelled, the system-log entries it wrote and whether it raised. *)

StoreFaults == {"none", "transient", "persistent"}
REMINDER_WINDOW_DAYS == 3

\* the except clause of a task (scheduled_tasks.py 48-55, 101-109, 153-161):
\* SystemLog.add on the same store, outside any try
TaskFailed(d, fault) ==
    [db |-> d, notified |-> {}, cancelled |-> {},
     log |-> IF fault = "persistent" THEN <<>> ELSE <<"Scheduled Task Error">>,
     raised |-> fault = "persistent"]

\* Borrow.get_expired_pickups_details at time t with hours = 48
get_expired_pickups_details(d, t) ==
    {i \in DOMAIN d.borrows : /\ d.borrows[i].status = "pending_pickup"
                              /\ d.borrows[i].borrow_date <= t - PendingDays}

\* auto_cancel_expired_pickups of scheduled_tasks.py at time t
auto_cancel_expired_pickups(d, t, fault) ==
    IF fault # "none" THEN TaskFailed(d, fault)
    ELSE LET expired_list == get_expired_pickups_details(d, t)
             swept == AutoCancelExpiredPickups(d, t)
         IN [db |-> swept.db,
             notified |-> expired_list,
             cancelled |-> {i \in DOMAIN d.borrows :
                               /\ d.borrows[i].status = "pending_pickup"
                               /\ swept.db.borrows[i].status = "cancelled"},
             log |-> IF swept.count > 0
                     THEN <<"Scheduled Task: Auto-cancel Expired Pickups">> ELSE <<>>,
             raised |-> FALSE]

\* send_overdue_notifications flagging the loans it finds: each selected
\* borrow is written back with status 'overdue'.
send_overdue_notifications_flagging(d, t, fault) ==
    IF fault # "none" THEN TaskFailed(d, fault)
    ELSE LET overdue_borrows == {i \in DOMAIN d.borrows :
                 /\ d.borrows[i].status = "borrowed"
                 /\ d.borrows[i].due < t}
         IN [db |-> [d EXCEPT !.borrows = [i \in DOMAIN @ |->
                        IF i \in overdue_borrows
                        THEN [@[i] EXCEPT !.status = "overdue"] ELSE @[i]]],
             notified |-> overdue_borrows, cancelled |-> {},
             log |-> IF overdue_borrows # {}
                     THEN <<"Scheduled Task: Overdue Notifications">> ELSE <<>>,
             raised |-> FALSE]

\* send_due_date_reminders at time t
send_due_date_reminders(d, t, fault) ==
    IF fault # "none" THEN TaskFailed(d, fault)
    ELSE LET upcoming_due == {i \in DOMAIN d.borrows :
                 /\ d.borrows[i].status = "borrowed"
                 /\ d.borrows[i].due <= t + REMINDER_WINDOW_DAYS
                 /\ d.borrows[i].due > t}
         IN [db |-> d, notified |-> upcoming_due, cancelled |-> {},
             log |-> IF upcoming_due # {}
                     THEN <<"Scheduled Task: Due Date Reminders">> ELSE <<>>,
             raised |-> FALSE]

\* send_overdue_notifications at time t
send_overdue_notifications(d, t, fault) ==
    IF fault # "none" THEN TaskFailed(d, fault)
    ELSE LET overdue_borrows == {i \in DOMAIN d.borrows :
                 /\ d.borrows[i].status = "borrowed"
                 /\ d.borrows[i].due < t}
         IN [db |-> d, notified |-> overdue_borrows, cancelled |-> {},
             log |-> IF overdue_borrows # {}
                     THEN <<"Scheduled Task: Overdue Notifications">> ELSE <<>>,
             raised |-> FALSE]

----------------------------------------------------------------------------
(* Staff and user operations: models/staff.py, models/user.py *)

\* Staff.update_book_info (Book.update_fields writes both counts)
UpdateBookInfo(d, b, total, available) ==
    IF available > total
    THEN [db |-> d, ok |-> FALSE, msg |-> "available_exceeds_total"]
    ELSE [db |-> [d EXCEPT !.books[b].total = total, !.books[b].avail = available],
          ok |-> TRUE, msg |-> "updated"]

\* User.pay_fine
PayFine(d, u, amount) ==
    LET user == d.users[u] IN
    IF amount <= 0 \/ user.fines <= 0
    THEN [db |-> d, ok |-> FALSE, msg |-> "nothing_to_pay"]
    ELSE LET pay_amount == IF user.fines < amount THEN user.fines ELSE amount IN
         [db |-> [d EXCEPT !.users[u].fines = user.fines - pay_amount,
                           !.fines = [f \in DOMAIN @ |->
                               IF @[f].user = u /\ @[f].status = "unpaid"
                               THEN [@[f] EXCEPT !.status = "paid"] ELSE @[f]]],
          ok |-> TRUE, msg |-> "paid"]

\* Staff.process_book_return on row i, one of the borrowed rows of the book
\* (the SELECT of lines 126-129 has no ORDER BY), at time t
ProcessBookReturn(d, i, condition, book_value, fine_paid_now, t) ==
    LET r == ReturnBook(d, i, condition, book_value, t)
        borrow == r.db.borrows[i]
        total_fee == borrow.late_fee + borrow.damage_fee
    IN IF ~r.ok THEN r
       ELSE IF fine_paid_now /\ total_fee > 0
       THEN [db |-> PayFine(r.db, borrow.user, total_fee).db,
             ok |-> TRUE, msg |-> "returned_paid"]
       ELSE r

----------------------------------------------------------------------------
(* The lifecycle specification: every handler runs as one step, one request
   at a time. *)

NoCalc == [due |-> 0, ret |-> 0, fee |-> 0, prev_ret |-> 0, prev_fee |-> 0]
NoLoc == [op |-> "none"]
NoWork == <<>>

\* One catalogue row as Book.create and the staff's edit leave it (available
\* between 0 and total), the other tables empty.
InitDb ==
    \E total \in 1..MaxCopies : \E avail \in 0..total :
        db = [books |-> [b \in Books |-> [total |-> total, avail |-> avail,
                                          borrow_count |-> 0]],
              borrows |-> <<>>,
              reservations |-> <<>>,
              users |-> [u \in Users |-> [fines |-> 0, violations |-> 0]],
              fines |-> <<>>]

Idle ==
    /\ pc = [p \in Procs |-> "idle"]
    /\ loc = [p \in Procs |-> NoLoc]
    /\ lock = "none"
    /\ work = NoWork

Init ==
    /\ InitDb
    /\ now = 0
    /\ calc = NoCalc
    /\ Idle

DoBorrowCreate(u, b) ==
    /\ Len(db.borrows) < MaxBorrows
    /\ db' = BorrowCreate(db, u, b, now).db
    /\ UNCHANGED <<now, calc, pc, loc, lock, work>>

DoApprovePickup(i) ==
    /\ db' = ApprovePickup(db, i, now).db
    /\ UNCHANGED <<now, calc, pc, loc, lock, work>>

DoBorrowRenew(i) ==
    /\ db' = BorrowRenew(db, i, RENEWAL_EXTENSION_DAYS, now).db
    /\ UNCHANGED <<now, calc, pc, loc, lock, work>>

DoBorrowCancel(i) ==
    /\ db' = BorrowCancel(db, i, now).db
    /\ UNCHANGED <<now, calc, pc, loc, lock, work>>

DoReturnBook(i, condition, book_value) ==
    /\ db' = ReturnBook(db, i, condition, book_value, now).db
    /\ UNCHANGED <<now, calc, pc, loc, lock, work>>

DoSweep ==
    /\ db' = AutoCancelExpiredPickups(db, now).db
    /\ UNCHANGED <<now, calc, pc, loc, lock, work>>

DoReservationCreate(u, b, max) ==
    /\ Len(db.reservations) < max
    /\ db' = ReservationCreate(db, u, b, now).db
    /\ UNCHANGED <<now, calc, pc, loc, lock, work>>

DoReservationCancel(r) ==
    /\ db' = ReservationCancel(db, r).db
    /\ UNCHANGED <<now, calc, pc, loc, lock, work>>

DoUpdateBookInfo(b, total, available) ==
    /\ db' = UpdateBookInfo(db, b, total, available).db
    /\ UNCHANGED <<now, calc, pc, loc, lock, work>>

DoPayFine(u) ==
    /\ db' = PayFine(db, u, db.users[u].fines).db
    /\ UNCHANGED <<now, calc, pc, loc, lock, work>>

Tick(days) ==
    /\ now + days <= MaxTime
    /\ now' = now + days
    /\ UNCHANGED <<db, calc, pc, loc, lock, work>>

Next ==
    \/ \E u \in Borrowers, b \in Books : DoBorrowCreate(u, b)
    \/ \E i \in DOMAIN db.borrows : DoApprovePickup(i)
    \/ \E i \in DOMAIN db.borrows : DoBorrowRenew(i)
    \/ \E i \in DOMAIN db.borrows : DoBorrowCancel(i)
    \/ \E i \in DOMAIN db.borrows, c \in Conditions, v \in BookValues :
           DoReturnBook(i, c, v)
    \/ DoSweep
    \/ \E u \in Borrowers, b \in Books : DoReservationCreate(u, b, MaxReservations)
    \/ \E r \in DOMAIN db.reservations : DoReservationCancel(r)
    \/ \E u \in Users : DoPayFine(u)
    \/ \E days \in TickDays : Tick(days)

Spec == Init /\ [][Next]_vars

----------------------------------------------------------------------------
(* The ledger specification: the operations that move copies, together with
   the staff's edit of the two counts of a book. *)

NextLedger ==
    \/ \E u \in Borrowers, b \in Books : DoBorrowCreate(u, b)
    \/ \E i \in DOMAIN db.borrows : DoApprovePickup(i)
    \/ \E i \in DOMAIN db.borrows : DoBorrowCancel(i)
    \/ \E i \in DOMAIN db.borrows, c \in Conditions, v \in BookValues :
           DoReturnBook(i, c, v)
    \/ DoSweep
    \/ \E b \in Books, total \in 1..MaxCopies, available \in 0..MaxCopies :
           DoUpdateBookInfo(b, total, available)
    \/ \E days \in TickDays : Tick(days)

SpecLedger == Init /\ [][NextLedger]_vars

\* The catalogue as insert_mock_data seeds it: row i of the CSV file gets
\* 3 + (i % 5) copies of which 2 + (i % 4) are available, whatever the total;
\* without the file two fallback books are seeded.
SeedBook(i) ==
    [total |-> 3 + (i % 5), avail |-> 2 + (i % 4), borrow_count |-> (i * 7) % 500]

FallbackBooks ==
    {[total |-> 5, avail |-> 2, borrow_count |-> 342],
     [total |-> 6, avail |-> 4, borrow_count |-> 412]}

InitSeed ==
    /\ \E book \in {SeedBook(i) : i \in 0..(MaxSeedRows - 1)} \cup FallbackBooks :
           db = [books |-> [b \in Books |-> book],
                 borrows |-> <<>>,
                 reservations |-> <<>>,
                 users |-> [u \in Users |-> [fines |-> 0, violations |-> 0]],
                 fines |-> <<>>]
    /\ now = 0
    /\ calc = NoCalc
    /\ Idle

NextSeed ==
    \/ \E u \in Borrowers, b \in Books : DoBorrowCreate(u, b)
    \/ \E i \in DOMAIN db.borrows : DoApprovePickup(i)
    \/ \E i \in DOMAIN db.borrows : DoBorrowCancel(i)
    \/ \E i \in DOMAIN db.borrows, c \in Conditions, v \in BookValues :
           DoReturnBook(i, c, v)
    \/ DoSweep
    \/ \E days \in TickDays : Tick(days)

SpecSeed == InitSeed /\ [][NextSeed]_vars

----------------------------------------------------------------------------
(* The queue specification: reservations of up to MaxQueue users on a book
   whose copies are lent, cancelled and returned in good condition. *)

NextQueue ==
    \/ \E u \in Borrowers, b \in Books : DoBorrowCreate(u, b)
    \/ \E i \in DOMAIN db.borrows : DoApprovePickup(i)
    \/ \E i \in DOMAIN db.borrows : DoBorrowCancel(i)
    \/ \E i \in DOMAIN db.borrows, v \in BookValues : DoReturnBook(i, "good", v)
    \/ \E u \in Users, b \in Books : DoReservationCreate(u, b, MaxQueue)
    \/ \E r \in DOMAIN db.reservations : DoReservationCancel(r)

SpecQueue == Init /\ [][NextQueue]_vars

----------------------------------------------------------------------------
(* The hold specification: the queue operations of two users, together with
   the two methods that end a hold, Reservation.mark_expired and
   Reservation.complete, called on any reservation. *)

DoMarkExpired(r) ==
    /\ db' = MarkExpired(db, r).db
    /\ UNCHANGED <<now, calc, pc, loc, lock, work>>

DoComplete(r) ==
    /\ db' = Complete(db, r).db
    /\ UNCHANGED <<now, calc, pc, loc, lock, work>>

NextHold ==
    \/ \E u \in Borrowers, b \in Books : DoBorrowCreate(u, b)
    \/ \E i \in DOMAIN db.borrows : DoApprovePickup(i)
    \/ \E i \in DOMAIN db.borrows : DoBorrowCancel(i)
    \/ \E i \in DOMAIN db.borrows, v \in BookValues : DoReturnBook(i, "good", v)
    \/ \E u \in Users, b \in Books : DoReservationCreate(u, b, MaxQueue)
    \/ \E r \in DOMAIN db.reservations : DoReservationCancel(r)
    \/ \E r \in DOMAIN db.reservations : DoMarkExpired(r)
    \/ \E r \in DOMAIN db.reservations : DoComplete(r)

SpecHold == Init /\ [][NextHold]_vars

----------------------------------------------------------------------------
(* The pickup specification: requests and pickups with the clock moving one
   day at a time, so that a copy is collected on the day of the request, one
   or two days later, or after the pickup deadline. *)

TickPickup ==
    /\ now + 1 <= MaxPickupTime
    /\ now' = now + 1
    /\ UNCHANGED <<db, calc, pc, loc, lock, work>>

NextPickup ==
    \/ \E u \in Borrowers, b \in Books : DoBorrowCreate(u, b)
    \/ \E i \in DOMAIN db.borrows : DoApprovePickup(i)
    \/ TickPickup

SpecPickup == Init /\ [][NextPickup]_vars

----------------------------------------------------------------------------
(* The sweep specification: requests and pickups with the clock moving one
   day at a time up to the day a loan is overdue, and the three scheduled
   tasks run at any time, with the store in any condition. *)

DoAutoCancelTask(fault) ==
    /\ db' = auto_cancel_expired_pickups(db, now, fault).db
    /\ UNCHANGED <<now, calc, pc, loc, lock, work>>

DoReminderTask(fault) ==
    /\ db' = send_due_date_reminders(db, now, fault).db
    /\ UNCHANGED <<now, calc, pc, loc, lock, work>>

DoOverdueTask(fault) ==
    /\ db' = send_overdue_notifications(db, now, fault).db
    /\ UNCHANGED <<now, calc, pc, loc, lock, work>>

TickSweep ==
    /\ now + 1 <= MaxSweepTime
    /\ now' = now + 1
    /\ UNCHANGED <<db, calc, pc, loc, lock, work>>

NextSweep ==
    \/ \E u \in Borrowers, b \in Books : DoBorrowCreate(u, b)
    \/ \E i \in DOMAIN db.borrows : DoApprovePickup(i)
    \/ \E fault \in StoreFaults : DoAutoCancelTask(fault)
    \/ \E fault \in StoreFaults : DoReminderTask(fault)
    \/ \E fault \in StoreFaults : DoOverdueTask(fault)
    \/ TickSweep

SpecSweep == Init /\ [][NextSweep]_vars

----------------------------------------------------------------------------
(* The expiry specification: requests, pickups and cancellations with the
   clock moving one day at a time, and the expired-pickup sweep.  The clock
   stops at MaxPickupTime, so requests are made only while their deadline
   falls before that day.  The scheduler runs the sweep every hour
   (scheduled_tasks.py 168-175) and the clock never stops: both are weakly
   fair. *)

DoBorrowCreateInTime(u, b) ==
    /\ now + PendingDays < MaxPickupTime
    /\ DoBorrowCreate(u, b)

NextExpiry ==
    \/ \E u \in Borrowers, b \in Books : DoBorrowCreateInTime(u, b)
    \/ \E i \in DOMAIN db.borrows : DoApprovePickup(i)
    \/ \E i \in DOMAIN db.borrows : DoBorrowCancel(i)
    \/ DoSweep
    \/ TickPickup

SpecExpiry ==
    Init /\ [][NextExpiry]_vars /\ WF_vars(TickPickup) /\ WF_vars(DoSweep)

----------------------------------------------------------------------------
(* The lapse specification: the queue operations of the two borrowers with
   the clock advancing past the end of a hold, and what the program runs by
   itself: the three scheduled tasks.  No handler and no task calls
   Reservation.mark_expired or reads hold_until, so mark_expired is not a
   step here.  The clock and the scheduled tasks are weakly fair; the
   reminder and the overdue task change nothing, so their fairness holds of
   every behaviour, and the fairness of the expired-pickup task is written
   out with its enabling condition, PickupOverdue. *)

\* the SELECT of Borrow.auto_cancel_expired_pickups finds a row: the
\* expired-pickup task is enabled and changes the database
PickupOverdue ==
    \E i \in DOMAIN db.borrows :
        /\ db.borrows[i].status = "pending_pickup"
        /\ db.borrows[i].pending_until < now

NextLapse ==
    \/ \E u \in Borrowers, b \in Books : DoBorrowCreate(u, b)
    \/ \E i \in DOMAIN db.borrows : DoApprovePickup(i)
    \/ \E i \in DOMAIN db.borrows : DoBorrowCancel(i)
    \/ \E i \in DOMAIN db.borrows, v \in BookValues : DoReturnBook(i, "good", v)
    \/ \E u \in Borrowers, b \in Books : DoReservationCreate(u, b, MaxReservations)
    \/ \E r \in DOMAIN db.reservations : DoReservationCancel(r)
    \/ DoAutoCancelTask("none")
    \/ DoReminderTask("none")
    \/ DoOverdueTask("none")
    \/ \E days \in TickDays : Tick(days)

SpecLapse ==
    /\ Init /\ [][NextLapse]_vars
    /\ WF_vars(\E days \in TickDays : Tick(days))
    /\ ([]<>(~PickupOverdue) \/ []<><<DoAutoCancelTask("none")>>_vars)

----------------------------------------------------------------------------
(* The stock specification: the operations that move copies, one at a time,
   from a catalogue whose book has every copy on the shelf and no borrow. *)

InitStock ==
    /\ \E total \in 1..MaxCopies :
          db = [books |-> [b \in Books |-> [total |-> total, avail |-> total,
                                            borrow_count |-> 0]],
                borrows |-> <<>>,
                reservations |-> <<>>,
                users |-> [u \in Users |-> [fines |-> 0, violations |-> 0]],
                fines |-> <<>>]
    /\ now = 0
    /\ calc = NoCalc
    /\ Idle

NextStock ==
    \/ \E u \in Users, b \in Books : DoBorrowCreate(u, b)
    \/ \E i \in DOMAIN db.borrows : DoApprovePickup(i)
    \/ \E i \in DOMAIN db.borrows : DoBorrowCancel(i)
    \/ \E i \in DOMAIN db.borrows, c \in Conditions, v \in BookValues :
           DoReturnBook(i, c, v)
    \/ DoSweep
    \/ \E u \in Users : DoPayFine(u)
    \/ \E days \in TickDays : Tick(days)

SpecStock == InitStock /\ [][NextStock]_vars

----------------------------------------------------------------------------
(* The limit specification: a catalogue of six books, of which user u1
   already holds four, so that the borrow limit of a user is reached. *)

ManyBooks == {"b1", "b2", "b3", "b4", "b5", "b6"}
UnknownBook == "b0"

\* the database after u1 asked for b1, b2, b3 and b4 at time 0
HeldDb(total) ==
    LET d0 == [books |-> [b \in ManyBooks |-> [total |-> total, avail |-> total,
                                               borrow_count |-> 0]],
               borrows |-> <<>>,
               reservations |-> <<>>,
               users |-> [u \in Users |-> [fines |-> 0, violations |-> 0]],
               fines |-> <<>>]
        d1 == BorrowCreate(d0, "u1", "b1", 0).db
        d2 == BorrowCreate(d1, "u1", "b2", 0).db
        d3 == BorrowCreate(d2, "u1", "b3", 0).db
    IN BorrowCreate(d3, "u1", "b4", 0).db

InitLimit ==
    /\ \E total \in 1..MaxCopies : db = HeldDb(total)
    /\ now = 0
    /\ calc = NoCalc
    /\ Idle

DoBorrowCreateMany(u, b) ==
    /\ Len(db.borrows) < MaxLimitRows
    /\ db' = BorrowCreate(db, u, b, now).db
    /\ UNCHANGED <<now, calc, pc, loc, lock, work>>

NextLimit ==
    \/ \E b \in ManyBooks \cup {UnknownBook} : DoBorrowCreateMany("u1", b)
    \/ \E i \in DOMAIN db.borrows : DoApprovePickup(i)
    \/ \E i \in DOMAIN db.borrows, v \in BookValues : DoReturnBook(i, "lost", v)

SpecLimit == InitLimit /\ [][NextLimit]_vars

----------------------------------------------------------------------------
(* The fines specification: loans are returned at the staff desk, with the
   fine paid at once or not, and users pay their balance. *)

DoProcessBookReturn(b, i, condition, book_value, fine_paid_now) ==
    /\ db.borrows[i].book = b
    /\ db.borrows[i].status = "borrowed"
    /\ db' = ProcessBookReturn(db, i, condition, book_value, fine_paid_now, now).db
    /\ UNCHANGED <<now, calc, pc, loc, lock, work>>

NextFines ==
    \/ \E u \in Borrowers, b \in Books : DoBorrowCreate(u, b)
    \/ \E i \in DOMAIN db.borrows : DoApprovePickup(i)
    \/ \E b \in Books, i \in DOMAIN db.borrows, c \in Conditions,
          v \in BookValues, paid \in BOOLEAN :
           DoProcessBookReturn(b, i, c, v, paid)
    \/ \E u \in Users : DoPayFine(u)
    \/ \E days \in TickDays : Tick(days)

SpecFines == Init /\ [][NextFines]_vars

----------------------------------------------------------------------------
(* The fee-calculator specification: calculate_late_fee is applied to a due
   time and to return times that only move forward, in whole minutes.  calc
   keeps the last two return times and the fees computed for them. *)

InitFee ==
    /\ \E due \in DueTimes :
          calc = [due |-> due, ret |-> 0, fee |-> calculate_late_fee(due, 0),
                  prev_ret |-> 0, prev_fee |-> calculate_late_fee(due, 0)]
    /\ db = [books |-> [b \in Books |-> [total |-> 1, avail |-> 1, borrow_count |-> 0]],
             borrows |-> <<>>,
             reservations |-> <<>>,
             users |-> [u \in Users |-> [fines |-> 0, violations |-> 0]],
             fines |-> <<>>]
    /\ now = 0
    /\ Idle

ComputeLateFee(k) ==
    /\ calc.ret + k <= MaxMinutes
    /\ calc' = [due |-> calc.due, ret |-> calc.ret + k,
                fee |-> calculate_late_fee(calc.due, calc.ret + k),
                prev_ret |-> calc.ret, prev_fee |-> calc.fee]
    /\ UNCHANGED <<db, now, pc, loc, lock, work>>

NextFee == \E k \in FeeSteps : ComputeLateFee(k)

SpecFee == InitFee /\ [][NextFee]_vars

----------------------------------------------------------------------------
(* The damage-fee specification: calculate_damage_fee is applied to a
   condition code and a book value.  Book values are multiples of 5000, for
   which the code's book_value * 0.20 is a whole number. *)

ConditionCodes == {"good", "minor_damage", "major_damage", "lost", "water_damage"}
DamageValues == {k * 5000 : k \in 0..MaxValueSteps}

InitDamage ==
    /\ \E c \in ConditionCodes, v \in DamageValues :
          calc = [condition |-> c, book_value |-> v, fee |-> NULL]
    /\ db = [books |-> [b \in Books |-> [total |-> 1, avail |-> 1, borrow_count |-> 0]],
             borrows |-> <<>>,
             reservations |-> <<>>,
             users |-> [u \in Users |-> [fines |-> 0, violations |-> 0]],
             fines |-> <<>>]
    /\ now = 0
    /\ Idle

ComputeDamageFee ==
    /\ calc.fee = NULL
    /\ calc' = [calc EXCEPT !.fee = calculate_damage_fee(calc.condition, calc.book_value)]
    /\ UNCHANGED <<db, now, pc, loc, lock, work>>

NextDamage == ComputeDamageFee

SpecDamage == InitDamage /\ [][NextDamage]_vars

----------------------------------------------------------------------------
(* The race specification: two requests run Borrow.create, Borrow.cancel or
   Borrow.return_book statement by statement, each on its own connection
   (get_db opens one per application context).  A SELECT outside a
   transaction reads the committed database; the first INSERT or UPDATE of a
   request opens its transaction and takes the write lock of the database
   file, which a second writer waits for; the request reads its own
   uncommitted writes; commit publishes them and frees the lock.  work is the
   open transaction's copy of the database, lock its owner. *)

\* what a SELECT of request p reads
View(p) == IF lock = p THEN work ELSE db

\* request p may execute an INSERT or UPDATE
CanWrite(p) == lock \in {"none", p}

\* an INSERT or UPDATE of request p that leaves the database as d, uncommitted
Write(p, d) == lock' = p /\ work' = d /\ UNCHANGED db

\* an INSERT or UPDATE of request p followed by db.commit()
WriteCommit(p, d) == db' = d /\ lock' = "none" /\ work' = NoWork

\* db.commit() of request p
Commit(p) ==
    IF lock = p THEN db' = work /\ lock' = "none" /\ work' = NoWork
    ELSE UNCHANGED <<db, lock, work>>

NoRow == [status |-> "none"]
Request(op, u, b, i, c) ==
    [op |-> op, user |-> u, book |-> b, id |-> i, cond |-> c, ok |-> FALSE,
     self |-> NoRow, bookobj |-> NoRow, userobj |-> NoRow, waiting |-> <<>>,
     next |-> 0, res |-> NoRow, fine |-> 0]

\* the request has returned: only its call and its result are kept
Return(p, ok) ==
    /\ pc' = [pc EXCEPT ![p] = "done"]
    /\ loc' = [loc EXCEPT ![p] = [Request(@.op, @.user, @.book, @.id, @.cond)
                                     EXCEPT !.ok = ok]]

Goto(p, label) == pc' = [pc EXCEPT ![p] = label]

\* the user each request acts for
UserOf(p) == IF p = "p1" THEN "u1" ELSE "u2"

StartCreate(p, b) ==
    /\ pc[p] = "idle"
    /\ Goto(p, "c_book")
    /\ loc' = [loc EXCEPT ![p] = Request("create", UserOf(p), b, 0, "good")]
    /\ UNCHANGED <<db, now, calc, lock, work>>

StartCancel(p, i) ==
    /\ pc[p] = "idle"
    /\ Goto(p, "k_load")
    /\ loc' = [loc EXCEPT ![p] = Request("cancel", db.borrows[i].user,
                                         db.borrows[i].book, i, "good")]
    /\ UNCHANGED <<db, now, calc, lock, work>>

StartReturn(p, i, c) ==
    /\ pc[p] = "idle"
    /\ Goto(p, "r_load")
    /\ loc' = [loc EXCEPT ![p] = Request("return", db.borrows[i].user,
                                         db.borrows[i].book, i, c)]
    /\ UNCHANGED <<db, now, calc, lock, work>>

(* Borrow.create *)

\* borrow.py 251-255
CreateReadBook(p) ==
    /\ pc[p] = "c_book"
    /\ LET book == View(p).books[loc[p].book] IN
       IF book.avail <= 0 THEN Return(p, FALSE)
       ELSE Goto(p, "c_active") /\ loc' = [loc EXCEPT ![p].bookobj = book]
    /\ UNCHANGED <<db, now, calc, lock, work>>

\* borrow.py 258-265
CreateReadActive(p) ==
    /\ pc[p] = "c_active"
    /\ LET active_borrows == get_active_borrows(View(p), loc[p].user) IN
       IF \/ Cardinality(active_borrows) >= MAX_BORROW_LIMIT
          \/ \E i \in active_borrows : View(p).borrows[i].book = loc[p].book
       THEN Return(p, FALSE)
       ELSE Goto(p, "c_user") /\ UNCHANGED loc
    /\ UNCHANGED <<db, now, calc, lock, work>>

\* borrow.py 269-271
CreateReadUser(p) ==
    /\ pc[p] = "c_user"
    /\ IF View(p).users[loc[p].user].fines > 0 THEN Return(p, FALSE)
       ELSE Goto(p, "c_insert") /\ UNCHANGED loc
    /\ UNCHANGED <<db, now, calc, lock, work>>

\* borrow.py 286-291
CreateInsert(p) ==
    /\ pc[p] = "c_insert"
    /\ CanWrite(p)
    /\ Write(p, [View(p) EXCEPT !.borrows = Append(@,
            [user |-> loc[p].user, book |-> loc[p].book, status |-> "pending_pickup",
             due |-> now + BORROW_DURATION_DAYS, pending_until |-> now + PendingDays, borrow_date |-> now,
             renewed |-> 0, late_fee |-> 0, damage_fee |-> 0])])
    /\ Goto(p, "c_avail")
    /\ UNCHANGED <<now, calc, loc>>

\* borrow.py 294: the UPDATE writes the count computed from the Book object
\* loaded at line 251, and update_available_copies commits
CreateUpdateAvailable(p) ==
    /\ pc[p] = "c_avail"
    /\ CanWrite(p)
    /\ LET book == update_available_copies(loc[p].bookobj, -1) IN
        /\ WriteCommit(p, [View(p) EXCEPT !.books[loc[p].book].avail = book.avail])
        /\ loc' = [loc EXCEPT ![p].bookobj = book]
    /\ Goto(p, "c_count")
    /\ UNCHANGED <<now, calc>>

\* borrow.py 295-309
CreateIncrementCount(p) ==
    /\ pc[p] = "c_count"
    /\ CanWrite(p)
    /\ WriteCommit(p, [View(p) EXCEPT !.books[loc[p].book].borrow_count =
                          increment_borrow_count(loc[p].bookobj).borrow_count])
    /\ Return(p, TRUE)
    /\ UNCHANGED <<now, calc>>

(* Borrow.cancel *)

\* the route loads the row; borrow.py 498-499
CancelLoad(p) ==
    /\ pc[p] = "k_load"
    /\ LET self == View(p).borrows[loc[p].id] IN
       IF ~can_be_cancelled(self.status) THEN Return(p, FALSE)
       ELSE Goto(p, "k_status") /\ loc' = [loc EXCEPT ![p].self = self]
    /\ UNCHANGED <<db, now, calc, lock, work>>

\* borrow.py 508-511
CancelUpdateStatus(p) ==
    /\ pc[p] = "k_status"
    /\ CanWrite(p)
    /\ Write(p, [View(p) EXCEPT !.borrows[loc[p].id].status = "cancelled"])
    /\ Goto(p, "k_book")
    /\ UNCHANGED <<now, calc, loc>>

\* borrow.py 514-516: the book is read inside the open transaction
CancelRestoreCopy(p) ==
    /\ pc[p] = "k_book"
    /\ CanWrite(p)
    /\ LET book == update_available_copies(View(p).books[loc[p].book], 1) IN
       WriteCommit(p, [View(p) EXCEPT !.books[loc[p].book].avail = book.avail])
    /\ Goto(p, "k_has")
    /\ UNCHANGED <<now, calc, loc>>

\* borrow.py 519-525
CancelReadQueue(p) ==
    /\ pc[p] = "k_has"
    /\ IF has_active_reservations(View(p), loc[p].book)
       THEN /\ Goto(p, "k_reorder")
            /\ loc' = [loc EXCEPT ![p].waiting =
                  [k \in 1..Cardinality(WaitingOf(View(p), loc[p].book)) |->
                      CHOOSE r \in WaitingOf(View(p), loc[p].book) :
                          QueueRank(View(p), loc[p].book, r) = k]]
       ELSE Return(p, TRUE)
    /\ UNCHANGED <<db, now, calc, lock, work>>

\* borrow.py 528-532: one UPDATE per row read at line 521
CancelReorder(p) ==
    /\ pc[p] = "k_reorder"
    /\ CanWrite(p)
    /\ Write(p, [View(p) EXCEPT !.reservations = [q \in DOMAIN @ |->
            IF \E k \in DOMAIN loc[p].waiting : loc[p].waiting[k] = q
            THEN [@[q] EXCEPT !.pos =
                     CHOOSE k \in DOMAIN loc[p].waiting : loc[p].waiting[k] = q]
            ELSE @[q]]])
    /\ Goto(p, "k_next")
    /\ UNCHANGED <<now, calc, loc>>

\* borrow.py 535: the next reservation is loaded; with none, line 539 commits
CancelReadNext(p) ==
    /\ pc[p] = "k_next"
    /\ LET first == get_next_in_queue(View(p), loc[p].book) IN
       IF first # 0
       THEN /\ Goto(p, "k_ready")
            /\ loc' = [loc EXCEPT ![p].next = first,
                                  ![p].res = View(p).reservations[first]]
            /\ UNCHANGED <<db, lock, work>>
       ELSE Return(p, TRUE) /\ Commit(p)
    /\ UNCHANGED <<now, calc>>

\* borrow.py 537-539: mark_ready on the loaded reservation, then commit
CancelMarkReady(p) ==
    /\ pc[p] = "k_ready"
    /\ CanWrite(p)
    /\ WriteCommit(p, mark_ready(View(p), loc[p].next, loc[p].res, now))
    /\ Return(p, TRUE)
    /\ UNCHANGED <<now, calc>>

(* Borrow.return_book *)

\* staff.py 134; borrow.py 378-379
ReturnLoad(p) ==
    /\ pc[p] = "r_load"
    /\ LET self == View(p).borrows[loc[p].id] IN
       IF self.status # "borrowed" THEN Return(p, FALSE)
       ELSE Goto(p, "r_status") /\ loc' = [loc EXCEPT ![p].self = self]
    /\ UNCHANGED <<db, now, calc, lock, work>>

\* borrow.py 387-406
ReturnUpdateStatus(p) ==
    /\ pc[p] = "r_status"
    /\ CanWrite(p)
    /\ LET late_fee == calculate_late_fee(loc[p].self.due * MinutesPerDay,
                                          now * MinutesPerDay)
           damage_fee == calculate_damage_fee(loc[p].cond, CHOOSE v \in BookValues : TRUE)
       IN /\ Write(p, [View(p) EXCEPT !.borrows[loc[p].id].status = "returned",
                                      !.borrows[loc[p].id].late_fee = late_fee,
                                      !.borrows[loc[p].id].damage_fee = damage_fee])
          /\ loc' = [loc EXCEPT ![p].fine = late_fee + damage_fee]
    /\ Goto(p, "r_book")
    /\ UNCHANGED <<now, calc>>

\* borrow.py 409-415
ReturnRestoreCopy(p) ==
    /\ pc[p] = "r_book"
    /\ CanWrite(p)
    /\ LET book == update_available_copies(View(p).books[loc[p].book], 1) IN
       WriteCommit(p, [View(p) EXCEPT !.books[loc[p].book].avail = book.avail])
    /\ Goto(p, IF loc[p].fine > 0 THEN "r_fine" ELSE "r_has")
    /\ UNCHANGED <<now, calc, loc>>

\* borrow.py 416-418: User.get_by_id, then User.add_fine writes the balance
\* computed from the loaded object and commits
ReturnAddFine(p) ==
    /\ pc[p] = "r_fine"
    /\ CanWrite(p)
    /\ LET user == View(p).users[loc[p].user] IN
        /\ WriteCommit(p, [View(p) EXCEPT !.users[loc[p].user].fines =
                                              user.fines + loc[p].fine])
        /\ loc' = [loc EXCEPT ![p].userobj = user]
    /\ Goto(p, "r_violation")
    /\ UNCHANGED <<now, calc>>

\* borrow.py 419: User.add_violation
ReturnAddViolation(p) ==
    /\ pc[p] = "r_violation"
    /\ CanWrite(p)
    /\ WriteCommit(p, [View(p) EXCEPT !.users[loc[p].user].violations =
                                          loc[p].userobj.violations + 1])
    /\ Goto(p, "r_record")
    /\ UNCHANGED <<now, calc, loc>>

\* borrow.py 423-425: Fine.create inserts the record and adds the amount in SQL
ReturnCreateFine(p) ==
    /\ pc[p] = "r_record"
    /\ CanWrite(p)
    /\ WriteCommit(p, [View(p) EXCEPT
            !.fines = Append(@, [user |-> loc[p].user, amount |-> loc[p].fine,
                                 borrow |-> loc[p].id, status |-> "unpaid"]),
            !.users[loc[p].user].fines = @ + loc[p].fine])
    /\ Goto(p, "r_has")
    /\ UNCHANGED <<now, calc, loc>>

\* borrow.py 428-430
ReturnReadNext(p) ==
    /\ pc[p] = "r_has"
    /\ LET next_reservation == get_next_in_queue(View(p), loc[p].book) IN
       IF has_active_reservations(View(p), loc[p].book) /\ next_reservation # 0
       THEN /\ Goto(p, "r_ready")
            /\ loc' = [loc EXCEPT ![p].next = next_reservation,
                                  ![p].res = View(p).reservations[next_reservation]]
       ELSE Return(p, TRUE)
    /\ UNCHANGED <<db, now, calc, lock, work>>

\* borrow.py 431: mark_ready on the loaded reservation
ReturnMarkReady(p) ==
    /\ pc[p] = "r_ready"
    /\ CanWrite(p)
    /\ WriteCommit(p, mark_ready(View(p), loc[p].next, loc[p].res, now))
    /\ Return(p, TRUE)
    /\ UNCHANGED <<now, calc>>

\* a database the lifecycle reaches one handler at a time: a book of two
\* copies, one borrowed by u1 and one held for u2, with u3 and then u1
\* waiting for it
LentDb ==
    LET d0 == [books |-> [b \in Books |-> [total |-> 2, avail |-> 2, borrow_count |-> 0]],
               borrows |-> <<>>,
               reservations |-> <<>>,
               users |-> [u \in Users |-> [fines |-> 0, violations |-> 0]],
               fines |-> <<>>]
        b1 == CHOOSE b \in Books : TRUE
        d1 == BorrowCreate(d0, "u1", b1, 0).db
        d2 == ApprovePickup(d1, 1, 0).db
        d3 == BorrowCreate(d2, "u2", b1, 0).db
        d4 == ReservationCreate(d3, "u3", b1, 0).db
    IN ReservationCreate(d4, "u1", b1, 0).db

InitRace ==
    /\ \/ \E total \in 1..MaxCopies :
            db = [books |-> [b \in Books |-> [total |-> total, avail |-> total,
                                              borrow_count |-> 0]],
                  borrows |-> <<>>,
                  reservations |-> <<>>,
                  users |-> [u \in Users |-> [fines |-> 0, violations |-> 0]],
                  fines |-> <<>>]
       \/ db = LentDb
    /\ now = 0
    /\ calc = NoCalc
    /\ Idle

NextRace ==
    \E p \in Procs :
        \/ \E b \in Books : StartCreate(p, b)
        \/ \E i \in DOMAIN db.borrows : StartCancel(p, i)
        \/ \E i \in DOMAIN db.borrows, c \in Conditions : StartReturn(p, i, c)
        \/ CreateReadBook(p)
        \/ CreateReadActive(p)
        \/ CreateReadUser(p)
        \/ CreateInsert(p)
        \/ CreateUpdateAvailable(p)
        \/ CreateIncrementCount(p)
        \/ CancelLoad(p)
        \/ CancelUpdateStatus(p)
        \/ CancelRestoreCopy(p)
        \/ CancelReadQueue(p)
        \/ CancelReorder(p)
        \/ CancelReadNext(p)
        \/ CancelMarkReady(p)
        \/ ReturnLoad(p)
        \/ ReturnUpdateStatus(p)
        \/ ReturnRestoreCopy(p)
        \/ ReturnAddFine(p)
        \/ ReturnAddViolation(p)
        \/ ReturnCreateFine(p)
        \/ ReturnReadNext(p)
        \/ ReturnMarkReady(p)

SpecRace == InitRace /\ [][NextRace]_vars

----------------------------------------------------------------------------
(* The reservation race specification: two requests of different users run
   Reservation.create statement by statement, each on its own connection.
   The three SELECTs of the method run outside a transaction and read the
   committed database; the INSERT is committed at once (reservation.py 91). *)

ReserveRequest(u, b) ==
    [op |-> "reserve", user |-> u, book |-> b, ok |-> FALSE, max_pos |-> 0]

ReserveReturn(p, ok) ==
    /\ pc' = [pc EXCEPT ![p] = "done"]
    /\ loc' = [loc EXCEPT ![p] = [ReserveRequest(@.user, @.book) EXCEPT !.ok = ok]]

StartReserve(p, b) ==
    /\ pc[p] = "idle"
    /\ Goto(p, "v_book")
    /\ loc' = [loc EXCEPT ![p] = ReserveRequest(UserOf(p), b)]
    /\ UNCHANGED <<db, now, calc, lock, work>>

\* reservation.py 57-63
ReserveReadBook(p) ==
    /\ pc[p] = "v_book"
    /\ IF View(p).books[loc[p].book].avail > 0 THEN ReserveReturn(p, FALSE)
       ELSE Goto(p, "v_existing") /\ UNCHANGED loc
    /\ UNCHANGED <<db, now, calc, lock, work>>

\* reservation.py 65-72
ReserveReadExisting(p) ==
    /\ pc[p] = "v_existing"
    /\ IF \E r \in WaitingOf(View(p), loc[p].book) :
              View(p).reservations[r].user = loc[p].user
       THEN ReserveReturn(p, FALSE)
       ELSE Goto(p, "v_max") /\ UNCHANGED loc
    /\ UNCHANGED <<db, now, calc, lock, work>>

\* reservation.py 75-80
ReserveReadMax(p) ==
    /\ pc[p] = "v_max"
    /\ LET positions == {View(p).reservations[r].pos :
                            r \in WaitingOf(View(p), loc[p].book)}
           max_pos == IF positions = {} THEN 0
                      ELSE CHOOSE m \in positions : \A q \in positions : q <= m
       IN loc' = [loc EXCEPT ![p].max_pos = max_pos]
    /\ Goto(p, "v_insert")
    /\ UNCHANGED <<db, now, calc, lock, work>>

\* reservation.py 85-107: the INSERT with the position computed at line 80,
\* and the commit
ReserveInsert(p) ==
    /\ pc[p] = "v_insert"
    /\ CanWrite(p)
    /\ WriteCommit(p, [View(p) EXCEPT !.reservations = Append(@,
            [user |-> loc[p].user, book |-> loc[p].book, status |-> "waiting",
             pos |-> loc[p].max_pos + 1, hold_until |-> NULL])])
    /\ ReserveReturn(p, TRUE)
    /\ UNCHANGED <<now, calc>>

\* a database the lifecycle reaches one handler at a time: a book whose
\* copies are all taken (by u3, then u1, then u2) and, with queued, one
\* reservation of u3 already waiting
RECURSIVE LendAll(_, _, _)
LendAll(d, b, k) ==
    IF k = 0 THEN d
    ELSE BorrowCreate(LendAll(d, b, k - 1), <<"u3", "u1", "u2">>[k], b, 0).db

TakenDb(total, queued) ==
    LET d0 == [books |-> [b \in Books |-> [total |-> total, avail |-> total,
                                           borrow_count |-> 0]],
               borrows |-> <<>>,
               reservations |-> <<>>,
               users |-> [u \in Users |-> [fines |-> 0, violations |-> 0]],
               fines |-> <<>>]
        b1 == CHOOSE b \in Books : TRUE
        d1 == LendAll(d0, b1, total)
    IN IF queued THEN ReservationCreate(d1, "u3", b1, 0).db ELSE d1

InitReserve ==
    /\ \E total \in 1..MaxCopies, queued \in BOOLEAN : db = TakenDb(total, queued)
    /\ now = 0
    /\ calc = NoCalc
    /\ Idle

NextReserve ==
    \E p \in Procs :
        \/ \E b \in Books : StartReserve(p, b)
        \/ ReserveReadBook(p)
        \/ ReserveReadExisting(p)
        \/ ReserveReadMax(p)
        \/ ReserveInsert(p)

SpecReserve == InitReserve /\ [][NextReserve]_vars

----------------------------------------------------------------------------
(* The fault specification: the statements of Borrow.create may raise (the
   database file is locked past the busy timeout, the disk fails); the except
   clause of lines 311-314 rolls the connection back and reports failure. *)

\* db.rollback() of request p: the open transaction, if any, is dropped
Rollback(p) ==
    IF lock = p THEN lock' = "none" /\ work' = NoWork /\ UNCHANGED db
    ELSE UNCHANGED <<db, lock, work>>

\* the INSERT of lines 286-291 raises
CreateInsertFails(p) ==
    /\ pc[p] = "c_insert"
    /\ Rollback(p)
    /\ Return(p, FALSE)
    /\ UNCHANGED <<now, calc>>

\* the UPDATE or the commit of update_available_copies (line 294) raises
CreateUpdateAvailableFails(p) ==
    /\ pc[p] = "c_avail"
    /\ Rollback(p)
    /\ Return(p, FALSE)
    /\ UNCHANGED <<now, calc>>

\* the UPDATE or the commit of increment_borrow_count (line 295) raises
CreateIncrementCountFails(p) ==
    /\ pc[p] = "c_count"
    /\ Rollback(p)
    /\ Return(p, FALSE)
    /\ UNCHANGED <<now, calc>>

InitFault ==
    /\ \E total \in 1..MaxCopies :
          db = [books |-> [b \in Books |-> [total |-> total, avail |-> total,
                                            borrow_count |-> 0]],
                borrows |-> <<>>,
                reservations |-> <<>>,
                users |-> [u \in Users |-> [fines |-> 0, violations |-> 0]],
                fines |-> <<>>]
    /\ now = 0
    /\ calc = NoCalc
    /\ Idle

NextFault ==
    \E p \in Procs :
        \/ \E b \in Books : StartCreate(p, b)
        \/ CreateReadBook(p)
        \/ CreateReadActive(p)
        \/ CreateReadUser(p)
        \/ CreateInsert(p)
        \/ CreateInsertFails(p)
        \/ CreateUpdateAvailable(p)
        \/ CreateUpdateAvailableFails(p)
        \/ CreateIncrementCount(p)
        \/ CreateIncrementCountFails(p)

SpecFault == InitFault /\ [][NextFault]_vars

----------------------------------------------------------------------------
(* Properties *)

IsActive(row) == row.status \in {"pending_pickup", "borrowed"}
IsTerminal(row) == row.status \in {"returned", "cancelled"}

\* C1 (SpecSeed): in every state reachable from the seeded catalogue by
\* Borrow.create, approve_pickup, cancel, return_book and the expired-pickup
\* sweep, every book has 0 <= available copies <= total copies.
C1_AvailabilityInvariant ==
    \A b \in Books : 0 <= db.books[b].avail /\ db.books[b].avail <= db.books[b].total

\* C2 (Spec): a (user, book) pair has at most one active borrow, and
\* Borrow.create by a user with an active borrow of the book fails and changes
\* nothing.
C2_SingleActiveBorrow ==
    \A u \in Users, b \in Books :
        LET active == {i \in DOMAIN db.borrows :
                         db.borrows[i].user = u /\ db.borrows[i].book = b
                         /\ IsActive(db.borrows[i])}
        IN /\ Cardinality(active) <= 1
           /\ active # {} => /\ ~BorrowCreate(db, u, b, now).ok
                             /\ BorrowCreate(db, u, b, now).db = db

\* a user with a borrowed copy asks for the same book while a copy is free,
\* and is refused by the duplicate test
C2_Witness ==
    \E u \in Users, b \in Books :
        /\ \E i \in DOMAIN db.borrows :
              db.borrows[i].user = u /\ db.borrows[i].book = b
              /\ db.borrows[i].status = "borrowed"
        /\ db.books[b].avail > 0
        /\ BorrowCreate(db, u, b, now).msg = "duplicate"

\* the set of queue positions of the waiting reservations of book b
WaitingPositions(d, b) == {d.reservations[r].pos : r \in WaitingOf(d, b)}

\* C3 (SpecQueue): the queue positions of the waiting reservations of each
\* book are exactly 1..n, with no gap and no duplicate.
C3_QueueContiguous ==
    \A b \in Books :
        /\ WaitingPositions(db, b) = 1..Cardinality(WaitingOf(db, b))
        /\ \A r, q \in WaitingOf(db, b) :
              db.reservations[r].pos = db.reservations[q].pos => r = q

\* C6 (Spec): a returned or cancelled borrow keeps its status, late fee and
\* damage fee in every step, and approve_pickup, renew, cancel and return_book
\* on it fail and change nothing.
C6_CallsFailOnTerminal ==
    \A i \in DOMAIN db.borrows :
        IsTerminal(db.borrows[i]) =>
            /\ ~ApprovePickup(db, i, now).ok /\ ApprovePickup(db, i, now).db = db
            /\ ~BorrowRenew(db, i, RENEWAL_EXTENSION_DAYS, now).ok
            /\ BorrowRenew(db, i, RENEWAL_EXTENSION_DAYS, now).db = db
            /\ ~BorrowCancel(db, i, now).ok /\ BorrowCancel(db, i, now).db = db
            /\ \A c \in Conditions, v \in BookValues :
                  /\ ~ReturnBook(db, i, c, v, now).ok
                  /\ ReturnBook(db, i, c, v, now).db = db
            /\ AutoCancelExpiredPickups(db, now).db.borrows[i] = db.borrows[i]

C6_RowKept ==
    \A i \in DOMAIN db.borrows :
        IsTerminal(db.borrows[i]) =>
            /\ db'.borrows[i].status = db.borrows[i].status
            /\ db'.borrows[i].late_fee = db.borrows[i].late_fee
            /\ db'.borrows[i].damage_fee = db.borrows[i].damage_fee

C6_TerminalImmutable == [](C6_CallsFailOnTerminal) /\ [][C6_RowKept]_vars

\* a borrow returned with a fee and a cancelled borrow both exist, at a time
\* when the cancelled one is past its pickup deadline
C6_Witness ==
    /\ \E i \in DOMAIN db.borrows :
          db.borrows[i].status = "returned" /\ db.borrows[i].late_fee > 0
    /\ \E i \in DOMAIN db.borrows :
          db.borrows[i].status = "cancelled" /\ db.borrows[i].pending_until < now

\* C7 (Spec): when return_book succeeds on a borrow of a book that has exactly
\* one waiting reservation, that reservation is ready after the return, with
\* or without a fee.
C7_ReturnPromotes ==
    \A i \in DOMAIN db.borrows, c \in Conditions, v \in BookValues :
        LET r == ReturnBook(db, i, c, v, now)
            waiting == WaitingOf(db, db.borrows[i].book)
        IN (r.ok /\ Cardinality(waiting) = 1) =>
              \A w \in waiting : r.db.reservations[w].status = "ready"

\* a late return, charged a fee, of a book with exactly one waiting
\* reservation can be made, and the reservation it promotes is ready
C7_Witness ==
    \E i \in DOMAIN db.borrows, c \in Conditions, v \in BookValues :
        LET r == ReturnBook(db, i, c, v, now)
            waiting == WaitingOf(db, db.borrows[i].book)
        IN /\ r.ok
           /\ Cardinality(waiting) = 1
           /\ r.db.borrows[i].late_fee > 0
           /\ \A w \in waiting : r.db.reservations[w].status = "ready"

\* C8 (SpecQueue): Reservation.cancel on a waiting reservation at position p
\* lowers by one the position of every other waiting reservation of the book
\* above p and leaves the lower ones unchanged.
C8_CancelCompacts ==
    \A r \in DOMAIN db.reservations :
        db.reservations[r].status = "waiting" =>
            LET res == ReservationCancel(db, r)
                b == db.reservations[r].book
                p == db.reservations[r].pos
            IN /\ res.ok
               /\ \A q \in WaitingOf(db, b) \ {r} :
                     res.db.reservations[q].pos =
                         IF db.reservations[q].pos > p
                         THEN db.reservations[q].pos - 1
                         ELSE db.reservations[q].pos

\* the delay left after the grace period, and the tier it is charged in
EffectiveMinutes(due, ret) == ret - due - GRACE_PERIOD_MINUTES
DailyTier(due, ret) == EffectiveMinutes(due, ret) >= MinutesPerDay

\* C4 as stated (SpecFee): the late fee never falls when the return time moves
\* forward, the switch from the hourly to the daily tier included.
C4_LateFeeMonotone == calc.prev_fee <= calc.fee

\* C4 as amended (SpecFee): the late fee never falls when the return time
\* moves forward inside a tier, that is between two return times whose
\* effective delays are both under 24 hours or both at least 24 hours.
C4_LateFeeMonotoneInTier ==
    DailyTier(calc.due, calc.prev_ret) = DailyTier(calc.due, calc.ret)
        => calc.prev_fee <= calc.fee

\* the fee rises between two return times of the daily tier
C4_Witness ==
    /\ DailyTier(calc.due, calc.prev_ret)
    /\ DailyTier(calc.due, calc.ret)
    /\ calc.prev_fee > 0
    /\ calc.prev_fee < calc.fee

\* the least whole number of units of size n that cover m (m >= 0)
CeilDiv(m, n) == IF m % n = 0 THEN m \div n ELSE (m \div n) + 1

\* C5 (SpecFee): the late fee is 0 up to the due time and through the grace
\* period; past it, it is ceil(effective/60) * 2000 while effective < 1440
\* minutes and ceil(effective/1440) * 10000 from 1440 minutes on (a delay of
\* 125 minutes costs 4000, one of 2880 minutes 20000).
C5_LateFeeFormula ==
    LET delay == calc.ret - calc.due
        effective == delay - 60
    IN /\ (calc.ret <= calc.due \/ delay <= 60) => calc.fee = 0
       /\ (calc.ret > calc.due /\ delay > 60 /\ effective < 1440)
             => calc.fee = CeilDiv(effective, 60) * 2000
       /\ (calc.ret > calc.due /\ delay > 60 /\ effective >= 1440)
             => calc.fee = CeilDiv(effective, 1440) * 10000
       /\ delay = 125 => calc.fee = 4000
       /\ delay = 2880 => calc.fee = 20000

\* a return exactly 1440 effective minutes late is charged one daily unit
C5_Witness ==
    /\ calc.ret - calc.due = 1440 + 60
    /\ calc.fee = 10000

\* the active borrows of book b
ActiveOn(d, b) ==
    {i \in DOMAIN d.borrows : d.borrows[i].book = b /\ IsActive(d.borrows[i])}

\* C9 (SpecRace): when two Borrow.create calls for a book interleave, the
\* active borrows of the book never outnumber the copies that were available:
\* with one copy, at most one call succeeds.
C9_OneCopyOneBorrow ==
    \A b \in Books : Cardinality(ActiveOn(db, b)) <= db.books[b].total

\* C10 (SpecRace): when a cancel and a return (or two of either) of different
\* borrows of a book with two waiting reservations have both succeeded, two
\* distinct reservations are ready: one promotion for each freed copy.
C10_OnePromotionPerCopy ==
    (/\ \A p \in Procs : pc[p] = "done" /\ loc[p].ok
                         /\ loc[p].op \in {"cancel", "return"}
     /\ loc["p1"].id # loc["p2"].id)
        => Cardinality({r \in DOMAIN db.reservations :
                           db.reservations[r].status = "ready"}) = 2

C12_RenewAtMostOnce ==
    \A i \in DOMAIN db.borrows :
        LET self == db.borrows[i]
            r == BorrowRenew(db, i, RENEWAL_EXTENSION_DAYS, now)
        IN /\ self.renewed \in {0, 1}
           /\ (self.status = "borrowed" /\ self.renewed = 0 /\ now <= self.due
               /\ WaitingOf(db, self.book) = {})
                 => /\ r.ok
                    /\ r.db.borrows[i].renewed = 1
           /\ self.renewed >= 1
                 => /\ ~r.ok
                    /\ r.db.borrows[i].due = self.due
                    /\ r.db.borrows[i].renewed = self.renewed

\* a borrowed loan that was renewed once is asked to renew again in time, with
\* no reservation waiting, and is refused for the limit
C12_Witness ==
    \E i \in DOMAIN db.borrows :
        /\ db.borrows[i].status = "borrowed"
        /\ db.borrows[i].renewed = 1
        /\ now <= db.borrows[i].due
        /\ BorrowRenew(db, i, RENEWAL_EXTENSION_DAYS, now).msg = "renewal_limit"

\* C13 (Spec): Borrow.create by a user whose fines balance is above 0, or for
\* a book with no available copy, fails and leaves the available copies, the
\* popularity counter and the borrows unchanged.
C13_CreateFailureFrame ==
    \A u \in Users, b \in Books :
        (db.users[u].fines > 0 \/ db.books[b].avail = 0)
            => LET r == BorrowCreate(db, u, b, now)
               IN /\ ~r.ok
                  /\ r.db.books[b].avail = db.books[b].avail
                  /\ r.db.books[b].borrow_count = db.books[b].borrow_count
                  /\ r.db.borrows = db.borrows

\* a user with a fines balance and no active borrow asks for a book that has a
\* free copy and is refused for the fine
C13_Witness ==
    \E u \in Users, b \in Books :
        /\ db.users[u].fines > 0
        /\ db.books[b].avail > 0
        /\ get_active_borrows(db, u) = {}
        /\ BorrowCreate(db, u, b, now).msg = "fine"

\* the sum of the amounts of the fine records with index in S
RECURSIVE SumAmounts(_, _)
SumAmounts(fines, S) ==
    IF S = {} THEN 0
    ELSE LET f == CHOOSE x \in S : TRUE
         IN fines[f].amount + SumAmounts(fines, S \ {f})

\* the unpaid fine records of user u
UnpaidOf(d, u) ==
    {f \in DOMAIN d.fines : d.fines[f].user = u /\ d.fines[f].status = "unpaid"}

\* C14 (SpecFines): the fines balance of every user equals the sum of the
\* amounts of the user's unpaid fine records.
C14_FinesEqualUnpaid ==
    \A u \in Users : db.users[u].fines = SumAmounts(db.fines, UnpaidOf(db, u))

\* C15 (SpecFines): a successful return_book with late fee + damage fee F > 0
\* raises the borrower's fines balance by exactly F and the violations count
\* by exactly 1, and adds exactly one unpaid fine record of amount F that
\* references the borrow.
C15_ReturnChargesOnce ==
    \A i \in DOMAIN db.borrows, c \in Conditions, v \in BookValues :
        LET r == ReturnBook(db, i, c, v, now)
            u == db.borrows[i].user
            F == r.db.borrows[i].late_fee + r.db.borrows[i].damage_fee
        IN (r.ok /\ F > 0)
              => /\ r.db.users[u].fines = db.users[u].fines + F
                 /\ r.db.users[u].violations = db.users[u].violations + 1
                 /\ Len(r.db.fines) = Len(db.fines) + 1
                 /\ r.db.fines[Len(r.db.fines)] =
                        [user |-> u, amount |-> F, borrow |-> i, status |-> "unpaid"]

\* C16 (SpecFines): process_book_return with fine_paid_now set, on a return
\* with fee F > 0, leaves the borrower's fines balance as it was before the
\* return, so a borrower who had no fines is not refused for fines afterwards.
C16_FinePaidNowSettles ==
    \A i \in DOMAIN db.borrows, c \in Conditions, v \in BookValues :
        LET r == ProcessBookReturn(db, i, c, v, TRUE, now)
            u == db.borrows[i].user
            F == r.db.borrows[i].late_fee + r.db.borrows[i].damage_fee
        IN (r.ok /\ F > 0)
              => /\ r.db.users[u].fines = db.users[u].fines
                 /\ db.users[u].fines = 0
                       => \A b \in Books : BorrowCreate(r.db, u, b, now).msg # "fine"

\* C17 (SpecFault): Borrow.create is all-or-nothing: a create that reported
\* failure left no borrow row of its user, and while every create that was
\* made has failed the book keeps all its copies available.
C17_CreateAllOrNothing ==
    /\ \A p \in Procs :
          (pc[p] = "done" /\ loc[p].op = "create" /\ ~loc[p].ok)
             => \A i \in DOMAIN db.borrows : db.borrows[i].user # loc[p].user
    /\ (\A p \in Procs : pc[p] = "idle" \/ (pc[p] = "done" /\ ~loc[p].ok))
          => \A b \in Books : db.books[b].avail = db.books[b].total

\* C18 (SpecQueue): promotion is first in, first out: of two reservations of
\* a book (rows are in creation order), the later one is never ready while
\* the earlier one is still waiting.
C18_PromotionFifo ==
    \A r, q \in DOMAIN db.reservations :
        (r < q /\ db.reservations[r].book = db.reservations[q].book)
            => ~(db.reservations[q].status = "ready"
                 /\ db.reservations[r].status = "waiting")

\* with two reservations waiting, a copy came back and the earlier one was
\* promoted while the later one still waits
C18_Witness ==
    \E r, q \in DOMAIN db.reservations :
        /\ r < q
        /\ db.reservations[r].book = db.reservations[q].book
        /\ db.reservations[r].status = "ready"
        /\ db.reservations[q].status = "waiting"
        /\ db.reservations[q].pos > 1

\* the ready reservations of book b whose hold has not passed at time t
HeldOf(d, b, t) ==
    {r \in DOMAIN d.reservations :
        /\ d.reservations[r].book = b
        /\ d.reservations[r].status = "ready"
        /\ d.reservations[r].hold_until >= t}

\* C19 (SpecQueue): a copy held for a ready, unexpired reservation is kept
\* for its user: Borrow.create by a user who holds no such reservation fails
\* when the available copies do not exceed the number of held reservations.
C19_HoldReservesCopy ==
    \A u \in Users, b \in Books :
        (/\ HeldOf(db, b, now) # {}
         /\ \A r \in HeldOf(db, b, now) : db.reservations[r].user # u
         /\ db.books[b].avail <= Cardinality(HeldOf(db, b, now)))
            => ~BorrowCreate(db, u, b, now).ok

\* C20 (SpecQueue): when a user with a ready reservation of a book creates a
\* borrow of it, the reservation is completed by the create, and no user with
\* an active borrow of a book keeps a ready reservation of it.
C20_BorrowCompletesReservation ==
    /\ \A r \in DOMAIN db.reservations :
          LET res == db.reservations[r]
              c == BorrowCreate(db, res.user, res.book, now)
          IN (res.status = "ready" /\ c.ok)
                => c.db.reservations[r].status = "completed"
    /\ \A r \in DOMAIN db.reservations, i \in DOMAIN db.borrows :
          (/\ db.reservations[r].status = "ready"
           /\ db.borrows[i].user = db.reservations[r].user
           /\ db.borrows[i].book = db.reservations[r].book)
              => ~IsActive(db.borrows[i])

\* C21 (SpecHold): when mark_expired expires a ready reservation of a book
\* that has waiting reservations, the waiting reservation with the lowest
\* queue position is ready after the call.
C21_ExpiryPromotesNext ==
    \A r \in DOMAIN db.reservations :
        LET b == db.reservations[r].book
            e == MarkExpired(db, r)
        IN (db.reservations[r].status = "ready" /\ WaitingOf(db, b) # {})
              => /\ e.ok
                 /\ e.db.reservations[get_next_in_queue(db, b)].status = "ready"

\* the statuses a reservation never leaves
IsClosed(res) == res.status \in {"expired", "cancelled", "completed"}

\* C28 (SpecHold): mark_ready succeeds only from waiting, mark_expired and
\* complete only from ready, cancel only from waiting or ready; from any
\* other status the call fails and changes nothing, and a reservation that is
\* expired, cancelled or completed keeps its status in every step.
C28_CallsGuarded ==
    \A r \in DOMAIN db.reservations :
        LET s == db.reservations[r].status
            ready == MarkReady(db, r, now)
            expired == MarkExpired(db, r)
            completed == Complete(db, r)
            cancelled == ReservationCancel(db, r)
        IN /\ ready.ok <=> s = "waiting"
           /\ expired.ok <=> s = "ready"
           /\ completed.ok <=> s = "ready"
           /\ cancelled.ok <=> s \in {"waiting", "ready"}
           /\ ~ready.ok => ready.db = db
           /\ ~expired.ok => expired.db = db
           /\ ~completed.ok => completed.db = db
           /\ ~cancelled.ok => cancelled.db = db

C28_ClosedKept ==
    \A r \in DOMAIN db.reservations :
        IsClosed(db.reservations[r]) =>
            db'.reservations[r].status = db.reservations[r].status

C28_TransitionsGuarded == [](C28_CallsGuarded) /\ [][C28_ClosedKept]_vars

\* an expired, a completed and a cancelled reservation exist together
C28_Witness ==
    /\ \E r \in DOMAIN db.reservations : db.reservations[r].status = "expired"
    /\ \E r \in DOMAIN db.reservations : db.reservations[r].status = "completed"
    /\ \E r \in DOMAIN db.reservations : db.reservations[r].status = "cancelled"

\* the pending pickups whose deadline is before t
ExpiredPickups(d, t) ==
    {i \in DOMAIN d.borrows :
        d.borrows[i].status = "pending_pickup" /\ d.borrows[i].pending_until < t}

\* C22 (Spec): a run of the expired-pickup sweep cancels every pending pickup
\* whose deadline is before now and returns their number; a second run at the
\* same time returns 0 and changes no borrow, book or reservation.
C22_SweepIdempotent ==
    LET first == AutoCancelExpiredPickups(db, now)
        second == AutoCancelExpiredPickups(first.db, now)
    IN /\ \A i \in ExpiredPickups(db, now) : first.db.borrows[i].status = "cancelled"
       /\ first.count = Cardinality(ExpiredPickups(db, now))
       /\ second.count = 0
       /\ second.db.borrows = first.db.borrows
       /\ second.db.books = first.db.books
       /\ second.db.reservations = first.db.reservations

\* two pending pickups are past their deadline when the sweep runs
C22_Witness ==
    /\ Cardinality(ExpiredPickups(db, now)) = 2
    /\ AutoCancelExpiredPickups(db, now).count = 2

\* C23 (SpecDamage): the damage fee is 0 for good, 20% of the book value for
\* minor_damage, the book value + 15000 for major_damage, the book value +
\* 20000 for lost and 0 for any other code, and the lost fee is greater than
\* the major_damage fee of the same book value.
C23_DamageFeeTable ==
    calc.fee # NULL =>
        /\ calc.condition = "good" => calc.fee = 0
        /\ calc.condition = "minor_damage" => calc.fee * 5 = calc.book_value
        /\ calc.condition = "major_damage" => calc.fee = calc.book_value + 15000
        /\ calc.condition = "lost" => calc.fee = calc.book_value + 20000
        /\ calc.condition \notin {"good", "minor_damage", "major_damage", "lost"}
              => calc.fee = 0
        /\ calculate_damage_fee("lost", calc.book_value)
              > calculate_damage_fee("major_damage", calc.book_value)

\* the fee of a lost book of positive value has been computed
C23_Witness ==
    /\ calc.condition = "lost"
    /\ calc.book_value > 0
    /\ calc.fee = calc.book_value + 20000

\* C24 (SpecLimit): Borrow.create tests, in this order, that the book exists,
\* that it has an available copy, that the user has fewer than 5 active
\* borrows, that the user has no active borrow of this book and that the
\* fines balance is 0; the failure reported is the first one in this order.
C24_CheckOrder ==
    \A u \in Users, b \in DOMAIN db.books \cup {UnknownBook} :
        LET r == BorrowCreate(db, u, b, now)
            active == {i \in DOMAIN db.borrows :
                          db.borrows[i].user = u /\ IsActive(db.borrows[i])}
            missing == b \notin DOMAIN db.books
            unavailable == ~missing /\ db.books[b].avail <= 0
            limit == Cardinality(active) >= 5
            duplicate == \E i \in active : db.borrows[i].book = b
            fine == db.users[u].fines > 0
        IN /\ missing => r.msg = "not_found"
           /\ unavailable => r.msg = "unavailable"
           /\ (~missing /\ ~unavailable /\ limit) => r.msg = "limit"
           /\ (~missing /\ ~unavailable /\ ~limit /\ duplicate) => r.msg = "duplicate"
           /\ (~missing /\ ~unavailable /\ ~limit /\ ~duplicate /\ fine)
                 => r.msg = "fine"
           /\ r.ok <=> ~(missing \/ unavailable \/ limit \/ duplicate \/ fine)

\* a user at the limit asks again for a book it holds and that has a free
\* copy: the limit and the duplicate both fail, the limit is reported
C24_Witness ==
    /\ \E u \in Users, b \in DOMAIN db.books :
          /\ Cardinality(get_active_borrows(db, u)) >= 5
          /\ db.books[b].avail > 0
          /\ \E i \in get_active_borrows(db, u) : db.borrows[i].book = b
          /\ BorrowCreate(db, u, b, now).msg = "limit"

\* C25 (Spec): renew on a borrowed loan of a book that has a waiting
\* reservation fails and leaves the due date and the renewed count unchanged,
\* and no step moves the due date of a borrowed loan while a reservation of
\* its book is waiting.
C25_RenewRefused ==
    \A i \in DOMAIN db.borrows :
        (db.borrows[i].status = "borrowed" /\ WaitingOf(db, db.borrows[i].book) # {})
            => LET r == BorrowRenew(db, i, RENEWAL_EXTENSION_DAYS, now)
               IN /\ ~r.ok
                  /\ r.db.borrows[i].due = db.borrows[i].due
                  /\ r.db.borrows[i].renewed = db.borrows[i].renewed

C25_DueKept ==
    \A i \in DOMAIN db.borrows :
        (db.borrows[i].status = "borrowed" /\ WaitingOf(db, db.borrows[i].book) # {})
            => db'.borrows[i].due = db.borrows[i].due

C25_RenewBlockedByReservation == [](C25_RenewRefused) /\ [][C25_DueKept]_vars

\* a borrowed loan that could otherwise be renewed (never renewed, not
\* overdue) is refused because a reservation of its book is waiting
C25_Witness ==
    \E i \in DOMAIN db.borrows :
        /\ db.borrows[i].status = "borrowed"
        /\ db.borrows[i].renewed = 0
        /\ now <= db.borrows[i].due
        /\ WaitingOf(db, db.borrows[i].book) # {}
        /\ BorrowRenew(db, i, RENEWAL_EXTENSION_DAYS, now).msg = "reserved"

\* C26 (SpecPickup): approve_pickup that succeeds at time now leaves the row
\* borrowed with due date now + 14 days, and every step that takes a row from
\* pending_pickup to borrowed sets its due date to the time of the step plus
\* 14 days, whatever the time of the request was.
C26_CallSetsDue ==
    \A i \in DOMAIN db.borrows :
        LET r == ApprovePickup(db, i, now)
        IN r.ok => /\ db.borrows[i].status = "pending_pickup"
                   /\ r.db.borrows[i].status = "borrowed"
                   /\ r.db.borrows[i].due = now + 14

C26_StepSetsDue ==
    \A i \in DOMAIN db.borrows :
        (db.borrows[i].status = "pending_pickup" /\ db'.borrows[i].status = "borrowed")
            => db'.borrows[i].due = now + 14

C27_PromotionHasCause ==
    \A r \in DOMAIN db.reservations :
        (db.reservations[r].status = "waiting" /\ db'.reservations[r].status = "ready")
            => \E i \in DOMAIN db.borrows :
                   /\ db.borrows[i].book = db.reservations[r].book
                   /\ \/ /\ db.borrows[i].status = "borrowed"
                         /\ db'.borrows[i].status = "returned"
                      \/ /\ db.borrows[i].status = "pending_pickup"
                         /\ db'.borrows[i].status = "cancelled"

C27_OnlyReturnOrCancelPromotes == [][C27_PromotionHasCause]_vars

\* a reservation has been promoted, and a borrow of its book has been
\* returned or cancelled, while another reservation of the book still waits
C27_Witness ==
    \E r \in DOMAIN db.reservations :
        /\ db.reservations[r].status = "ready"
        /\ \E i \in DOMAIN db.borrows :
               /\ db.borrows[i].book = db.reservations[r].book
               /\ db.borrows[i].status \in {"returned", "cancelled"}
        /\ WaitingOf(db, db.reservations[r].book) # {}

\* the highest queue position among the waiting reservations of book b, or 0
HighestWaiting(d, b) ==
    LET positions == {d.reservations[r].pos : r \in WaitingOf(d, b)}
    IN IF positions = {} THEN 0
       ELSE CHOOSE m \in positions : \A q \in positions : q <= m

\* C29 (SpecQueue): Reservation.create succeeds only for a book with no
\* available copy, and then adds one reservation, waiting, at the highest
\* waiting position of the book (0 when none waits) plus one; for a book with
\* an available copy it fails and changes nothing.  Every step that adds a
\* reservation adds it that way.
C29_CallPositions ==
    \A u \in Users, b \in Books :
        LET r == ReservationCreate(db, u, b, now)
            n == Len(db.reservations)
        IN /\ r.ok => /\ db.books[b].avail = 0
                      /\ Len(r.db.reservations) = n + 1
                      /\ SubSeq(r.db.reservations, 1, n) = db.reservations
                      /\ r.db.reservations[n + 1].user = u
                      /\ r.db.reservations[n + 1].book = b
                      /\ r.db.reservations[n + 1].status = "waiting"
                      /\ r.db.reservations[n + 1].pos = HighestWaiting(db, b) + 1
           /\ db.books[b].avail > 0 => (~r.ok /\ r.db = db)

C29_StepPositions ==
    Len(db'.reservations) > Len(db.reservations)
        => LET n == Len(db.reservations)
               new == db'.reservations[n + 1]
           IN /\ Len(db'.reservations) = n + 1
              /\ db.books[new.book].avail = 0
              /\ new.status = "waiting"
              /\ new.pos = HighestWaiting(db, new.book) + 1

C29_CreateAtQueueEnd == [](C29_CallPositions) /\ [][C29_StepPositions]_vars

\* a queue with a gap (the highest waiting position is above the number of
\* waiting reservations) on a book with no free copy, joined by another user
C29_Witness ==
    \E u \in Users, b \in Books :
        /\ db.books[b].avail = 0
        /\ HighestWaiting(db, b) > Cardinality(WaitingOf(db, b))
        /\ WaitingOf(db, b) # {}
        /\ ReservationCreate(db, u, b, now).ok

\* C30 (SpecQueue): no user has two waiting reservations of the same book,
\* and Reservation.create fails, changing nothing, for a user who already has
\* a waiting reservation of the book.
C30_OneWaitingPerUserBook ==
    /\ \A r1, r2 \in DOMAIN db.reservations :
           ( /\ db.reservations[r1].status = "waiting"
             /\ db.reservations[r2].status = "waiting"
             /\ db.reservations[r1].user = db.reservations[r2].user
             /\ db.reservations[r1].book = db.reservations[r2].book ) => r1 = r2
    /\ \A r \in DOMAIN db.reservations :
           db.reservations[r].status = "waiting"
               => LET c == ReservationCreate(db, db.reservations[r].user,
                                             db.reservations[r].book, now)
                  IN ~c.ok /\ c.db = db

\* a user waiting for a book that has no free copy asks to reserve it again
\* and is refused for that reason
C30_Witness ==
    \E r \in DOMAIN db.reservations :
        /\ db.reservations[r].status = "waiting"
        /\ db.books[db.reservations[r].book].avail = 0
        /\ Len(db.reservations) < MaxQueue
        /\ ReservationCreate(db, db.reservations[r].user,
                             db.reservations[r].book, now).msg = "already_reserved"

\* C31 (SpecReserve): when the Reservation.create calls of two users for the
\* same book have both succeeded, whatever the interleaving of their reads and
\* writes, the two reservations they added have different queue positions.
C31_NoPositionTie ==
    (\A p \in Procs : pc[p] = "done" /\ loc[p].ok)
        => \A r1, r2 \in DOMAIN db.reservations :
               ( /\ r1 # r2
                 /\ db.reservations[r1].status = "waiting"
                 /\ db.reservations[r2].status = "waiting"
                 /\ db.reservations[r1].book = db.reservations[r2].book )
                   => db.reservations[r1].pos # db.reservations[r2].pos

\* C32 (SpecSweep): in a run of the expired-pickup task with the store
\* working, the borrows a cancellation notification is emitted for are
\* exactly the borrows the run cancels.
C32_NotifiedAreCancelled ==
    LET run == auto_cancel_expired_pickups(db, now, "none")
    IN run.notified = run.cancelled

\* C33 (SpecSweep): the due-date reminder task and the overdue task leave
\* the database as it was, whatever the condition of the store; with the
\* store working the overdue task notifies exactly the borrowed loans with
\* due date before now, once each, and the reminder task notifies only
\* borrowed loans due between now and now + 3 days, among them every one due
\* after now.
C33_SweepsReadOnly ==
    /\ \A fault \in StoreFaults :
           /\ send_due_date_reminders(db, now, fault).db = db
           /\ send_overdue_notifications(db, now, fault).db = db
    /\ send_overdue_notifications(db, now, "none").notified
           = {i \in DOMAIN db.borrows :
                 db.borrows[i].status = "borrowed" /\ db.borrows[i].due < now}
    /\ LET reminded == send_due_date_reminders(db, now, "none").notified
       IN /\ reminded \subseteq {i \in DOMAIN db.borrows :
                 /\ db.borrows[i].status = "borrowed"
                 /\ now <= db.borrows[i].due
                 /\ db.borrows[i].due <= now + 3}
          /\ \A i \in DOMAIN db.borrows :
                 ( /\ db.borrows[i].status = "borrowed"
                   /\ now < db.borrows[i].due
                   /\ db.borrows[i].due <= now + 3 ) => i \in reminded

\* one loan is overdue and another is due within three days: each task
\* selects a loan
C33_Witness ==
    /\ send_overdue_notifications(db, now, "none").notified # {}
    /\ send_due_date_reminders(db, now, "none").notified # {}

\* C36 (SpecSweep): none of the three scheduled tasks raises, whatever the
\* condition of the store during the run.
C36_TasksNeverRaise ==
    \A fault \in StoreFaults :
        /\ ~auto_cancel_expired_pickups(db, now, fault).raised
        /\ ~send_due_date_reminders(db, now, fault).raised
        /\ ~send_overdue_notifications(db, now, fault).raised

C35_LapsedHoldEnds ==
    \A r \in 1..MaxReservations :
        ( /\ r \in DOMAIN db.reservations
          /\ db.reservations[r].status = "ready"
          /\ db.reservations[r].hold_until < now )
            ~> ( /\ r \in DOMAIN db.reservations
                 /\ db.reservations[r].status \in {"expired", "completed", "cancelled"} )

\* C37 (SpecHold): every call that succeeds in moving a borrow (create,
\* approve_pickup, renew, cancel, return_book) or a reservation (create,
\* mark_ready, cancel, mark_expired, complete) to another status writes an
\* entry in the system log.
C37_TransitionsLogged ==
    /\ \A u \in Users, b \in Books :
           /\ BorrowCreate(db, u, b, now).ok => BorrowLog("create") # <<>>
           /\ ReservationCreate(db, u, b, now).ok => ReservationLog("create") # <<>>
    /\ \A i \in DOMAIN db.borrows :
           /\ ApprovePickup(db, i, now).ok => BorrowLog("approve_pickup") # <<>>
           /\ BorrowRenew(db, i, RENEWAL_EXTENSION_DAYS, now).ok => BorrowLog("renew") # <<>>
           /\ BorrowCancel(db, i, now).ok => BorrowLog("cancel") # <<>>
           /\ \A c \in Conditions, v \in BookValues :
                  ReturnBook(db, i, c, v, now).ok => BorrowLog("return_book") # <<>>
    /\ \A r \in DOMAIN db.reservations :
           /\ MarkReady(db, r, now).ok => ReservationLog("mark_ready") # <<>>
           /\ ReservationCancel(db, r).ok => ReservationLog("cancel") # <<>>
           /\ MarkExpired(db, r).ok => ReservationLog("mark_expired") # <<>>
           /\ Complete(db, r).ok => ReservationLog("complete") # <<>>

\* C38 (SpecStock): from a catalogue where available = total - active
\* borrows, every state reached by create, approve_pickup, cancel,
\* return_book and the sweep has available + active borrows = total for
\* every book, and update_available_copies is never called with a change its
\* clamp would correct: a create that succeeds finds a copy to take, and a
\* cancel or return of an active borrow finds room for the copy it gives back.
C38_LedgerExact ==
    \A b \in Books :
        /\ db.books[b].avail + Cardinality(ActiveOn(db, b)) = db.books[b].total
        /\ \A u \in Users :
               BorrowCreate(db, u, b, now).ok
                   => update_available_copies(db.books[b], -1).avail
                          = db.books[b].avail - 1
        /\ ActiveOn(db, b) # {}
               => update_available_copies(db.books[b], 1).avail
                      = db.books[b].avail + 1

\* a book of two copies with one copy out and one back on the shelf after
\* the borrow that held it was returned
C38_Witness ==
    \E b \in Books :
        /\ ActiveOn(db, b) # {}
        /\ db.books[b].avail > 0
        /\ db.books[b].avail + Cardinality(ActiveOn(db, b)) = db.books[b].total
        /\ \E i \in DOMAIN db.borrows :
               db.borrows[i].book = b /\ db.borrows[i].status = "returned"

\* C39 (SpecLimit): no user has more than 5 borrows in status pending_pickup
\* or borrowed, and Borrow.create by a user who has 5 fails and changes
\* nothing, whatever the book.
C39_AtMostFiveActive ==
    \A u \in Users :
        LET held == {i \in DOMAIN db.borrows :
                        /\ db.borrows[i].user = u
                        /\ db.borrows[i].status \in {"pending_pickup", "borrowed"}}
        IN /\ Cardinality(held) <= 5
           /\ Cardinality(held) = 5
                  => \A b \in ManyBooks :
                         /\ ~BorrowCreate(db, u, b, now).ok
                         /\ BorrowCreate(db, u, b, now).db = db

\* a user holding five books asks for a sixth one that has a free copy and
\* that it does not hold
C39_Witness ==
    \E u \in Users, b \in ManyBooks :
        /\ Cardinality({i \in DOMAIN db.borrows :
               /\ db.borrows[i].user = u
               /\ db.borrows[i].status \in {"pending_pickup", "borrowed"}}) = 5
        /\ db.books[b].avail > 0
        /\ \A i \in DOMAIN db.borrows :
               (db.borrows[i].user = u /\ db.borrows[i].book = b)
                   => db.borrows[i].status \in {"returned", "cancelled"}
        /\ BorrowCreate(db, u, b, now).msg = "limit"

\* C40 (SpecRace): when two return attempts for the same borrowed loan have
\* both finished, whatever their interleaving, at most one of them succeeded:
\* the borrower has at most one violation, the book has no more copies on the
\* shelf than its total less its active borrows, and at most one reservation
\* was promoted.
C40_ReturnedOnce ==
    ( /\ \A p \in Procs : pc[p] = "done" /\ loc[p].op = "return"
      /\ loc["p1"].id = loc["p2"].id )
        => /\ ~(loc["p1"].ok /\ loc["p2"].ok)
           /\ db.users[loc["p1"].user].violations <= 1
           /\ \A b \in Books :
                  db.books[b].avail + Cardinality(ActiveOn(db, b)) <= db.books[b].total
           /\ Cardinality({r \in DOMAIN db.reservations :
                              db.reservations[r].status = "ready"}) <= 1

====
